---- MODULE Spec2Model ----
(***************************************************************************)
(* Model of the crypto-signal pipeline: the rule-based signal scorer       *)
(* (generateSignal), the advisory validator (analyzeSignalWithAI) and the  *)
(* batch orchestrator of the signals route (GET).                          *)
(*                                                                         *)
(* Units.  fundingRate is held in hundredths (the code's 0.01 is 1),       *)
(* longShortRatio in tenths (the code's 0.8 is 8, 1.2 is 12), liquidation  *)
(* volumes in whole dollars.  Ratios are compared by cross-multiplication. *)
(***************************************************************************)
EXTENDS Integers, Sequences, FiniteSets, TLC

\* An optional value (undefined / null in the code) is a sequence of length
\* at most one.
Nil == << >>
Some(x) == <<x>>

Min(a, b) == IF a < b THEN a ELSE b
Max(a, b) == IF a > b THEN a ELSE b

(***************************************************************************)
(* Bounds of the scorer's input space.                                     *)
(***************************************************************************)
MaxFunding == 2
MaxLiq == 3

(***************************************************************************)
(* Enumerations (src/lib/types.ts).                                        *)
(***************************************************************************)
TrendDirection == {"LONG", "SHORT", "NEUTRAL"}
BreakoutLabel == {"UP", "DOWN", "NONE"}
CrossoverLabel == {"BULLISH", "BEARISH", "NONE"}
SpikeLabel == {"LONG", "SHORT", "NONE"}
NewsSentiment == {"BULLISH", "BEARISH", "NEUTRAL"}

RevLong == "REVERSAL STARTED - LONG"
RevShort == "REVERSAL STARTED - SHORT"
LongGoing == "LONG GOING"
ShortGoing == "SHORT GOING"
LongRisky == "LONG RISKY TODAY"
ShortRisky == "SHORT RISKY TODAY"
NoSignal == "NO SIGNAL (STAY AWAY)"

\* The union type SignalOutput["signal"].
SignalCategory ==
  {RevLong, RevShort, LongGoing, ShortGoing, LongRisky, ShortRisky, NoSignal}

\* String.prototype.includes on a category name, for the words the code
\* searches for: the words each name is made of.
Words(signal) ==
  CASE signal = RevLong -> {"REVERSAL", "STARTED", "LONG"}
    [] signal = RevShort -> {"REVERSAL", "STARTED", "SHORT"}
    [] signal = LongGoing -> {"LONG", "GOING"}
    [] signal = ShortGoing -> {"SHORT", "GOING"}
    [] signal = LongRisky -> {"LONG", "RISKY", "TODAY"}
    [] signal = ShortRisky -> {"SHORT", "RISKY", "TODAY"}
    [] OTHER -> {"NO", "SIGNAL", "STAY", "AWAY"}

Includes(signal, word) == word \in Words(signal)

(***************************************************************************)
(* Signal scorer: generateSignal.                                          *)
(***************************************************************************)
FundingThreshold == 1
LongShortLow == 8
LongShortHigh == 12

\* liquidationRatio = longLiquidations1h / Math.max(shortLiquidations1h, 1)
LiqDenominator(coinglassData) == Max(coinglassData.shortLiquidations1h, 1)

bullishSignals(binanceData, coinglassData) ==
  << binanceData.trend5min = "LONG",
     binanceData.trend15min = "LONG",
     binanceData.bollingerBandBreakout = "UP",
     binanceData.emaCrossover = "BULLISH",
     binanceData.fundingRate < -FundingThreshold,
     binanceData.longShortRatio < LongShortLow,
     coinglassData.liquidationSpike = "SHORT",
     2 * coinglassData.longLiquidations1h < LiqDenominator(coinglassData) >>

bearishSignals(binanceData, coinglassData) ==
  << binanceData.trend5min = "SHORT",
     binanceData.trend15min = "SHORT",
     binanceData.bollingerBandBreakout = "DOWN",
     binanceData.emaCrossover = "BEARISH",
     binanceData.fundingRate > FundingThreshold,
     binanceData.longShortRatio > LongShortHigh,
     coinglassData.liquidationSpike = "LONG",
     coinglassData.longLiquidations1h > 2 * LiqDenominator(coinglassData) >>

\* signals.filter(Boolean).length
CountTrue(flags) == Cardinality({i \in DOMAIN flags : flags[i]})

bullishCount(binanceData, coinglassData) ==
  CountTrue(bullishSignals(binanceData, coinglassData))

bearishCount(binanceData, coinglassData) ==
  CountTrue(bearishSignals(binanceData, coinglassData))

\* The twelve conditional pushes, in program order.
SummaryPushes(binanceData, coinglassData) ==
  << <<binanceData.trend5min = "LONG", "5min uptrend active">>,
     <<binanceData.trend15min = "LONG", "15min uptrend active">>,
     <<binanceData.bollingerBandBreakout = "UP", "Bollinger upper band breakout">>,
     <<binanceData.emaCrossover = "BULLISH", "EMA bullish crossover">>,
     <<coinglassData.liquidationSpike = "SHORT", "Short liquidation spike detected">>,
     <<binanceData.fundingRate < -FundingThreshold, "Negative funding rate (shorts paying)">>,
     <<binanceData.trend5min = "SHORT", "5min downtrend active">>,
     <<binanceData.trend15min = "SHORT", "15min downtrend active">>,
     <<binanceData.bollingerBandBreakout = "DOWN", "Bollinger lower band breakout">>,
     <<binanceData.emaCrossover = "BEARISH", "EMA bearish crossover">>,
     <<coinglassData.liquidationSpike = "LONG", "Long liquidation spike detected">>,
     <<binanceData.fundingRate > FundingThreshold, "Positive funding rate (longs paying)">> >>

TrendSummaryNoLiquidation(binanceData, coinglassData) ==
  LET pushes == SummaryPushes(binanceData, coinglassData)
      taken == SelectSeq(pushes, LAMBDA p : p[1] /\ p[2] \notin
                 {"Short liquidation spike detected", "Long liquidation spike detected"})
  IN  [i \in 1..Len(taken) |-> taken[i][2]]

TrendSummary(binanceData, coinglassData) ==
  LET pushes == SummaryPushes(binanceData, coinglassData)
      taken == SelectSeq(pushes, LAMBDA p : p[1])
  IN  [i \in 1..Len(taken) |-> taken[i][2]]

\* A variant of the rule chain that tests the bearish reversal before the
\* bullish continuation.
ClassifyBearFirst(bull, bear) ==
  IF bull >= 5 THEN [signal |-> RevLong, confidence |-> Min(95, 60 + bull * 5)]
  ELSE IF bear >= 5 THEN [signal |-> RevShort, confidence |-> Min(95, 60 + bear * 5)]
  ELSE IF bull >= 3 THEN [signal |-> LongGoing, confidence |-> Min(85, 50 + bull * 7)]
  ELSE IF bear >= 3 THEN [signal |-> ShortGoing, confidence |-> Min(85, 50 + bear * 7)]
  ELSE IF bull = 2 THEN [signal |-> ShortRisky, confidence |-> 40]
  ELSE IF bear = 2 THEN [signal |-> LongRisky, confidence |-> 40]
  ELSE [signal |-> NoSignal, confidence |-> 0]

\* "Determine signal and confidence": the if / else-if chain.
Classify(bull, bear) ==
  IF bull >= 5 THEN [signal |-> RevLong, confidence |-> Min(95, 60 + bull * 5)]
  ELSE IF bull >= 3 THEN [signal |-> LongGoing, confidence |-> Min(85, 50 + bull * 7)]
  ELSE IF bear >= 5 THEN [signal |-> RevShort, confidence |-> Min(95, 60 + bear * 5)]
  ELSE IF bear >= 3 THEN [signal |-> ShortGoing, confidence |-> Min(85, 50 + bear * 7)]
  ELSE IF bull = 2 THEN [signal |-> ShortRisky, confidence |-> 40]
  ELSE IF bear = 2 THEN [signal |-> LongRisky, confidence |-> 40]
  ELSE [signal |-> NoSignal, confidence |-> 0]

\* A variant that adjusts whatever the category is.
SentimentAdjustAnyCategory(signal, newsSentiment, confidence) ==
  IF newsSentiment = "BULLISH" THEN confidence + 10
  ELSE IF newsSentiment = "BEARISH" THEN confidence - 10
  ELSE confidence

\* A variant that leaves out the two penalising statements.
SentimentAdjustBonusOnly(signal, newsSentiment, confidence) ==
  LET c1 == IF newsSentiment = "BULLISH" /\ Includes(signal, "LONG")
            THEN confidence + 10 ELSE confidence
  IN  IF newsSentiment = "BEARISH" /\ Includes(signal, "SHORT") THEN c1 + 10 ELSE c1

\* "Adjust confidence based on news sentiment": four if statements in a row.
SentimentAdjust(signal, newsSentiment, confidence) ==
  LET c1 == IF newsSentiment = "BULLISH" /\ Includes(signal, "LONG")
            THEN confidence + 10 ELSE confidence
      c2 == IF newsSentiment = "BEARISH" /\ Includes(signal, "SHORT")
            THEN c1 + 10 ELSE c1
      c3 == IF newsSentiment = "BULLISH" /\ Includes(signal, "SHORT")
            THEN c2 - 10 ELSE c2
  IN  IF newsSentiment = "BEARISH" /\ Includes(signal, "LONG") THEN c3 - 10 ELSE c3

\* A variant without the upper limit.
ClampLowerOnly(confidence) == Max(0, confidence)

\* confidence = Math.max(0, Math.min(100, confidence))
Clamp(confidence) == Max(0, Min(100, confidence))

Direction(signal) == IF Includes(signal, "LONG") THEN "LONG" ELSE "SHORT"

SuggestedAction(signal, confidence) ==
  IF Includes(signal, "REVERSAL") /\ confidence > 70
  THEN <<"High confidence", Direction(signal), "setup. Consider entry with tight stop loss.">>
  ELSE IF Includes(signal, "GOING") /\ confidence > 60
  THEN <<"Trend continuation", Direction(signal), "Follow trend with proper risk management.">>
  ELSE IF Includes(signal, "RISKY")
  THEN <<Direction(signal), "positions risky today. Consider opposite direction or wait.">>
  ELSE <<"No clear direction. Wait for better setup.">>

generateSignal(binanceData, coinglassData, newsSentiment) ==
  LET rule == Classify(bullishCount(binanceData, coinglassData),
                       bearishCount(binanceData, coinglassData))
      confidence == Clamp(SentimentAdjust(rule.signal, newsSentiment, rule.confidence))
  IN  [coin |-> binanceData.coin,
       currentPrice |-> binanceData.currentPrice,
       signal |-> rule.signal,
       confidence |-> confidence,
       trendSummary |-> TrendSummary(binanceData, coinglassData),
       suggestedAction |-> SuggestedAction(rule.signal, confidence),
       aiAnalysis |-> Nil]

(***************************************************************************)
(* Advisory validator: analyzeSignalWithAI.                                *)
(***************************************************************************)
aiAnalysisEnabled == TRUE

\* What aiClient.chat.completions.create and the parsing of its answer can
\* come to: the call rejects ("error"), the answer has no content ("empty"),
\* the content is not JSON ("text"), or it parses ("json") to a value that
\* has or lacks the newsAnalysis and signalValidation members.
ProviderReplies ==
  {[kind |-> k, hasNewsAnalysis |-> FALSE, signalValidation |-> Nil] :
      k \in {"error", "empty", "text"}}
  \cup
  {[kind |-> "json", hasNewsAnalysis |-> TRUE, signalValidation |-> v] :
      v \in {Nil} \cup {Some([isValid |-> b, confidence |-> 50]) : b \in BOOLEAN}}
  \cup
  {[kind |-> "json", hasNewsAnalysis |-> FALSE, signalValidation |-> Nil]}

\* The provider is not called.
NoReply == [kind |-> "error", hasNewsAnalysis |-> FALSE, signalValidation |-> Nil]

\* The object built in the catch block.
FallbackAnalysis(signal, items) ==
  [signalValidation |-> Some([isValid |-> signal.confidence >= 70,
                              confidence |-> signal.confidence]),
   keyNews |-> items,
   riskLevel |-> IF signal.confidence < 50 THEN "HIGH"
                 ELSE IF signal.confidence < 70 THEN "MEDIUM" ELSE "LOW",
   fallback |-> TRUE]

\* A variant whose catch block returns null.
analyzeSignalWithAINullOnError(signal, items, aiClient, reply) ==
  IF ~aiClient \/ ~aiAnalysisEnabled THEN Nil
  ELSE IF reply.kind = "json" /\ reply.hasNewsAnalysis
       THEN Some([signalValidation |-> reply.signalValidation,
                  keyNews |-> items,
                  riskLevel |-> "MEDIUM",
                  fallback |-> FALSE])
       ELSE Nil

\* Null without a client; else the parsed answer with keyNews set to the
\* articles passed in; else, from the catch block, the fallback object.
analyzeSignalWithAI(signal, items, aiClient, reply) ==
  IF ~aiClient \/ ~aiAnalysisEnabled THEN Nil
  ELSE IF reply.kind = "json" /\ reply.hasNewsAnalysis
       THEN Some([signalValidation |-> reply.signalValidation,
                  keyNews |-> items,
                  riskLevel |-> "MEDIUM",
                  fallback |-> FALSE])
       ELSE Some(FallbackAnalysis(signal, items))

(***************************************************************************)
(* Batch orchestrator: the default branch of GET.                          *)
(***************************************************************************)
BATCH_SIZE == 12
ConfidenceCap == 60
ValidationThreshold == 60
MinimumConfidence == 70
MinHighConfidence == 10
TopCount == 25
ErrorSliceCount == 10

MajorCoins == {"BTCUSDT", "ETHUSDT", "BNBUSDT", "XRPUSDT", "SOLUSDT"}

\* The symbol universe of a run: one major and one other symbol.
coins == <<"BTCUSDT", "DOGEUSDT">>
Coins == {coins[i] : i \in DOMAIN coins}

\* A variant that validates every signal.
shouldAnalyzeAlways(signal, coin) == TRUE

shouldAnalyzeWithAI(signal, coin) ==
  signal.confidence >= ValidationThreshold \/ coin \in MajorCoins

\* A variant that sets the confidence to the cap.
ApplyValidationSetCap(signal, aiAnalysis) ==
  IF aiAnalysis = Nil THEN signal
  ELSE IF aiAnalysis[1].signalValidation = Nil
       THEN [signal EXCEPT !.aiAnalysis = aiAnalysis]
       ELSE IF ~aiAnalysis[1].signalValidation[1].isValid
            THEN [signal EXCEPT !.aiAnalysis = aiAnalysis, !.confidence = ConfidenceCap]
            ELSE [signal EXCEPT !.aiAnalysis = aiAnalysis]

\* A variant that also rewrites the suggested action for the capped
\* confidence.
ApplyValidationRescored(signal, aiAnalysis) ==
  IF aiAnalysis = Nil THEN signal
  ELSE IF aiAnalysis[1].signalValidation = Nil
       THEN [signal EXCEPT !.aiAnalysis = aiAnalysis]
       ELSE IF ~aiAnalysis[1].signalValidation[1].isValid
            THEN [signal EXCEPT !.aiAnalysis = aiAnalysis,
                                !.confidence = Min(@, ConfidenceCap),
                                !.suggestedAction =
                                   SuggestedAction(signal.signal,
                                                   Min(signal.confidence, ConfidenceCap))]
            ELSE [signal EXCEPT !.aiAnalysis = aiAnalysis]

\* if (aiAnalysis) { signal.aiAnalysis = aiAnalysis; if (!isValid) cap }.  An
\* analysis without signalValidation makes the test throw after the
\* assignment; the catch around it swallows the TypeError.
ApplyValidation(signal, aiAnalysis) ==
  IF aiAnalysis = Nil THEN signal
  ELSE IF aiAnalysis[1].signalValidation = Nil
       THEN [signal EXCEPT !.aiAnalysis = aiAnalysis]
       ELSE IF ~aiAnalysis[1].signalValidation[1].isValid
            THEN [signal EXCEPT !.aiAnalysis = aiAnalysis,
                                !.confidence = Min(@, ConfidenceCap)]
            ELSE [signal EXCEPT !.aiAnalysis = aiAnalysis]

(***************************************************************************)
(* What the fetchers can deliver.  getRealBinanceData and                  *)
(* getRealCoinglassData catch every failure and always resolve to a        *)
(* snapshot; the model draws the snapshot from a set of samples.           *)
(***************************************************************************)
BinanceSamples(coin) ==
  {[coin |-> coin, currentPrice |-> 100,
    trend5min |-> "NEUTRAL", trend15min |-> "NEUTRAL",
    bollingerBandBreakout |-> "NONE", emaCrossover |-> "NONE",
    fundingRate |-> 0, longShortRatio |-> 10],
   [coin |-> coin, currentPrice |-> 101,
    trend5min |-> "LONG", trend15min |-> "LONG",
    bollingerBandBreakout |-> "UP", emaCrossover |-> "BULLISH",
    fundingRate |-> 0, longShortRatio |-> 10]}

CoinglassSamples(coin) ==
  {[coin |-> coin, longLiquidations1h |-> 300000, shortLiquidations1h |-> 300000,
    liquidationSpike |-> "NONE"]}

\* getCryptoNews: without a news API key the list is generateFallbackNews's
\* three scenarios for the coin, cut to config.ai.maxNewsArticles.
maxNewsArticles == 5

\* coin.replace('USDT', ''), coinName.toLowerCase() and `${coinName}USDT` on
\* the first thirty symbols of the route's list.
StripUSDT ==
  [BTCUSDT |-> "BTC", ETHUSDT |-> "ETH", BNBUSDT |-> "BNB",
   XRPUSDT |-> "XRP", SOLUSDT |-> "SOL", DOGEUSDT |-> "DOGE",
   ADAUSDT |-> "ADA", DOTUSDT |-> "DOT", LTCUSDT |-> "LTC",
   BCHUSDT |-> "BCH", AVAXUSDT |-> "AVAX", LINKUSDT |-> "LINK",
   MATICUSDT |-> "MATIC", UNIUSDT |-> "UNI", ATOMUSDT |-> "ATOM",
   FTMUSDT |-> "FTM", NEARUSDT |-> "NEAR", ALGOUSDT |-> "ALGO",
   VETUSDT |-> "VET", ICPUSDT |-> "ICP", ARBUSDT |-> "ARB", OPUSDT |-> "OP",
   LRCUSDT |-> "LRC", IMXUSDT |-> "IMX", STRKUSDT |-> "STRK",
   SHIBUSDT |-> "SHIB", PEPEUSDT |-> "PEPE", FLOKIUSDT |-> "FLOKI",
   BONKUSDT |-> "BONK", WIFUSDT |-> "WIF"]

ToLowerCase ==
  [BTC |-> "btc", ETH |-> "eth", BNB |-> "bnb", XRP |-> "xrp", SOL |-> "sol",
   DOGE |-> "doge", ADA |-> "ada", DOT |-> "dot", LTC |-> "ltc",
   BCH |-> "bch", AVAX |-> "avax", LINK |-> "link", MATIC |-> "matic",
   UNI |-> "uni", ATOM |-> "atom", FTM |-> "ftm", NEAR |-> "near",
   ALGO |-> "algo", VET |-> "vet", ICP |-> "icp", ARB |-> "arb", OP |-> "op",
   LRC |-> "lrc", IMX |-> "imx", STRK |-> "strk", SHIB |-> "shib",
   PEPE |-> "pepe", FLOKI |-> "floki", BONK |-> "bonk", WIF |-> "wif"]

AppendUSDT(coinName) == CHOOSE coin \in DOMAIN StripUSDT : StripUSDT[coin] = coinName

HourMs == 3600000

\* now is what Date.now() returns during the call, in milliseconds.
generateFallbackNews(coinName, now) ==
  LET scenarios ==
        << [title |-> <<coinName, "Shows Strong Technical Breakout">>,
            sentiment |-> "BULLISH", impact |-> "MEDIUM"],
           [title |-> <<"Market Analysis:", coinName, "Trading Patterns">>,
            sentiment |-> "NEUTRAL", impact |-> "LOW"],
           [title |-> <<"Institutional Interest in", coinName, "Growing">>,
            sentiment |-> "BULLISH", impact |-> "HIGH"] >>
  IN  [index \in 1..3 |->
         [title |-> scenarios[index].title,
          sentiment |-> scenarios[index].sentiment,
          impact |-> scenarios[index].impact,
          url |-> <<ToLowerCase[coinName], index - 1>>,
          publishedAt |-> now - (index - 1) * HourMs,
          relevantCoins |-> <<AppendUSDT(coinName)>>]]

\* Instants at which a request can run.
Clock == {10 * HourMs, 10 * HourMs + 1000}
SampleTime == 10 * HourMs

NewsSamples(coin) ==
  LET list == generateFallbackNews(StripUSDT[coin], SampleTime)
  IN  {SubSeq(list, 1, Min(maxNewsArticles, Len(list)))}

\* The list getCryptoNews resolves to without a news API key.
NewsOf(coin) == CHOOSE list \in NewsSamples(coin) : TRUE

\* The scorer's input space for the exhaustive check of generateSignal.
LongShortSamples == {LongShortLow - 1, LongShortLow, LongShortHigh, LongShortHigh + 1}
LiqAmounts == {k * 500000 : k \in 0..MaxLiq}
SentimentTexts == NewsSentiment \cup {"Bullish."}

BinanceInputs ==
  [coin : {"BTCUSDT"}, currentPrice : {100},
   trend5min : TrendDirection, trend15min : TrendDirection,
   bollingerBandBreakout : BreakoutLabel, emaCrossover : CrossoverLabel,
   fundingRate : (-MaxFunding)..MaxFunding, longShortRatio : LongShortSamples]

CoinglassInputs ==
  [coin : {"BTCUSDT"}, longLiquidations1h : LiqAmounts,
   shortLiquidations1h : LiqAmounts, liquidationSpike : SpikeLabel]

(***************************************************************************)
(* Market fetcher: getRealBinanceData.                                     *)
(*                                                                         *)
(* Each of the seven settled calls is Nil when rejected and Some(payload)  *)
(* when fulfilled.  deltaVolume is in whole percent.  A funding payload is *)
(* in units of 1e-4, so that parseFloat(fundingRate) * 100 is the same     *)
(* number of hundredths of a percent.  A price-history payload is either   *)
(* not an array, or an array described by its length and by the labels its *)
(* closing prices compute to.                                              *)
(***************************************************************************)
MinTrendKlines == 10
MinIndicatorKlines == 20
ChangeThreshold == 2
BreakoutChangeThreshold == 3

\* JavaScript numbers are IEEE 754 doubles.  A natural number of up to 81
\* bits is three limbs of 27 bits, most significant first; a double is a
\* sign, a mantissa m that is zero or lies in [2^52, 2^53), and an exponent e,
\* and stands for sign * m * 2^e.  Every operation is the exact result
\* rounded to the nearest double, ties to even; the operands the trend rule
\* meets are far from overflow and underflow.
LimbBase == 134217728

BigZero == <<0, 0, 0>>
BigOne == <<0, 0, 1>>
BigOf(n) == <<0, n \div LimbBase, n % LimbBase>>

BigLess(x, y) ==
  \/ x[1] < y[1]
  \/ x[1] = y[1] /\ x[2] < y[2]
  \/ x[1] = y[1] /\ x[2] = y[2] /\ x[3] < y[3]

BigAdd(x, y) ==
  LET s3 == x[3] + y[3]
      s2 == x[2] + y[2] + (s3 \div LimbBase)
      s1 == x[1] + y[1] + (s2 \div LimbBase)
  IN  <<s1, s2 % LimbBase, s3 % LimbBase>>

\* x - y for y <= x
BigSub(x, y) ==
  LET d3 == x[3] - y[3]
      b3 == IF d3 < 0 THEN 1 ELSE 0
      d2 == x[2] - y[2] - b3
      b2 == IF d2 < 0 THEN 1 ELSE 0
  IN  <<x[1] - y[1] - b2, d2 + b2 * LimbBase, d3 + b3 * LimbBase>>

BigDouble(x) == BigAdd(x, x)

LimbBits == 27

\* The number of bits of a limb, and of a natural number.
BitLength(limb) ==
  IF limb = 0 THEN 0 ELSE CHOOSE k \in 1..LimbBits : 2^(k - 1) <= limb /\ limb < 2^k

BigBitLength(x) ==
  IF x[1] > 0 THEN 2 * LimbBits + BitLength(x[1])
  ELSE IF x[2] > 0 THEN LimbBits + BitLength(x[2])
  ELSE BitLength(x[3])

\* x * 2^k, for a result below 2^81
ShiftLeft(x, k) ==
  LET b == k % LimbBits
      cut == 2^(LimbBits - b)
      low(limb) == (limb % cut) * 2^b
      high(limb) == limb \div cut
      y == <<low(x[1]) + high(x[2]), low(x[2]) + high(x[3]), low(x[3])>>
  IN  CASE k \div LimbBits = 0 -> y
        [] k \div LimbBits = 1 -> <<y[2], y[3], 0>>
        [] OTHER -> <<y[3], 0, 0>>

MantissaBits == 53
MantissaMin == <<0, 33554432, 0>>
MantissaLimit == <<0, 67108864, 0>>

Zero == [sign |-> 1, m |-> BigZero, e |-> 0]

\* <<n', d', e'>> with n' / d' * 2^e' = n / d * 2^e and d' <= n' < 2 * d'
Scale(n, d, e) ==
  LET shift == BigBitLength(n) - BigBitLength(d)
      n1 == IF shift < 0 THEN ShiftLeft(n, -shift) ELSE n
      d1 == IF shift > 0 THEN ShiftLeft(d, shift) ELSE d
  IN  IF BigLess(n1, d1) THEN <<BigDouble(n1), d1, e + shift - 1>>
      ELSE <<n1, d1, e + shift>>

\* One more bit of the quotient q with remainder r, qr = <<q, r>>.
QuotientBit(qr, d) ==
  LET q2 == BigDouble(qr[1])
      r2 == BigDouble(qr[2])
  IN  IF BigLess(r2, d) THEN <<q2, r2>>
      ELSE <<BigAdd(q2, BigOne), BigSub(r2, d)>>

\* The 53 bits of the quotient of a scaled pair s, two bits at a time after
\* the leading one, rounded ties to even.
Rounded(sign, s) ==
  LET bits[k \in 0..((MantissaBits - 1) \div 2)] ==
        IF k = 0 THEN <<BigOne, BigSub(s[1], s[2])>>
        ELSE CHOOSE x \in {QuotientBit(QuotientBit(qr, s[2]), s[2]) :
                           qr \in {bits[k - 1]}} : TRUE
      last == bits[(MantissaBits - 1) \div 2]
      q == last[1]
      r2 == BigDouble(last[2])
      up == BigLess(s[2], r2) \/ (r2 = s[2] /\ q[3] % 2 = 1)
      m == IF up THEN BigAdd(q, BigOne) ELSE q
      exp == s[3] - (MantissaBits - 1)
  IN  IF m = MantissaLimit THEN [sign |-> sign, m |-> MantissaMin, e |-> exp + 1]
      ELSE [sign |-> sign, m |-> m, e |-> exp]

\* The double nearest to sign * n / d * 2^e, ties to even.
RoundToDouble(sign, n, d, e) ==
  IF n = BigZero THEN Zero
  ELSE CHOOSE x \in {Rounded(sign, s) : s \in {Scale(n, d, e)}} : TRUE

Negate(x) == [x EXCEPT !.sign = -x.sign]

\* The sum of two doubles, rounded.
Sum(a, b) ==
  IF a.m = BigZero THEN b
  ELSE IF b.m = BigZero THEN a
  ELSE LET e == Min(a.e, b.e)
           x == ShiftLeft(a.m, a.e - e)
           y == ShiftLeft(b.m, b.e - e)
       IN  IF a.sign = b.sign THEN RoundToDouble(a.sign, BigAdd(x, y), BigOne, e)
           ELSE IF x = y THEN Zero
           ELSE IF BigLess(y, x) THEN RoundToDouble(a.sign, BigSub(x, y), BigOne, e)
           ELSE RoundToDouble(b.sign, BigSub(y, x), BigOne, e)

\* The quotient of two doubles, rounded; b is not zero.
Quotient(a, b) == RoundToDouble(a.sign * b.sign, a.m, b.m, a.e - b.e)

\* left + right: both operands are evaluated, then added.
FloatAdd(left, right) ==
  CHOOSE x \in {Sum(a, b) : a \in {left}, b \in {right}} : TRUE

\* left - right
FloatSub(left, right) ==
  CHOOSE x \in {Sum(a, Negate(b)) : a \in {left}, b \in {right}} : TRUE

\* left / right
FloatDiv(left, right) ==
  CHOOSE x \in {Quotient(a, b) : a \in {left}, b \in {right}} : TRUE

MagnitudeLess(a, b) ==
  IF b.m = BigZero THEN FALSE
  ELSE IF a.m = BigZero THEN TRUE
  ELSE a.e < b.e \/ (a.e = b.e /\ BigLess(a.m, b.m))

\* a < b
FloatLess(a, b) ==
  IF a.sign = 1 /\ b.sign = 1 THEN MagnitudeLess(a, b)
  ELSE IF a.sign = -1 /\ b.sign = -1 THEN MagnitudeLess(b, a)
  ELSE a.sign = -1 /\ (a.m # BigZero \/ b.m # BigZero)

RECURSIVE PowerOfTen(_)
PowerOfTen(k) == IF k = 0 THEN 1 ELSE 10 * PowerOfTen(k - 1)

\* parseFloat of the decimal string of digits / 10^scale, and a numeric
\* literal of that text.
parseFloat(text) == RoundToDouble(1, BigOf(text.digits), BigOf(PowerOfTen(text.scale)), 0)

\* list.reduce((a, b) => a + b)
RECURSIVE ReduceSum(_)
ReduceSum(list) ==
  IF Len(list) = 1 THEN list[1]
  ELSE FloatAdd(ReduceSum(SubSeq(list, 1, Len(list) - 1)), list[Len(list)])

TrendWindow == 5
TrendThreshold == [digits |-> 2, scale |-> 3]

\* The label of a relative change.
TrendOf(change) ==
  LET threshold == parseFloat(TrendThreshold)
  IN  IF FloatLess(threshold, change) THEN "LONG"
      ELSE IF FloatLess(change, Negate(threshold)) THEN "SHORT"
      ELSE "NEUTRAL"

\* list.reduce((a, b) => a + b) / list.length
Average(list) ==
  FloatDiv(ReduceSum(list), parseFloat([digits |-> Len(list), scale |-> 0]))

\* (recentAvg - previousAvg) / previousAvg
Change(recentAvg, previousAvg) ==
  FloatDiv(FloatSub(recentAvg, previousAvg), previousAvg)

\* klines is the array of candles, each given by the text of its close k[4].
calculateTrend(klines) ==
  IF Len(klines) < MinTrendKlines THEN "NEUTRAL"
  ELSE LET n == Len(klines)
           closes == [i \in DOMAIN klines |-> parseFloat(klines[i])]
           averages == {<<Average(SubSeq(c, n - TrendWindow + 1, n)),
                          Average(SubSeq(c, n - 2 * TrendWindow + 1, n - TrendWindow))>> :
                        c \in {closes}}
       IN  CHOOSE trend \in {TrendOf(Change(avg[1], avg[2])) : avg \in averages} : TRUE

\* calculateTrend on a payload described by its length and by the label its
\* closes compute to; every label is possible from ten candles on.
TrendLabel(klines) ==
  IF klines.length < MinTrendKlines THEN "NEUTRAL" ELSE klines.trend

calculateBollingerBreakout(klines) ==
  IF klines.length < MinIndicatorKlines THEN "NONE" ELSE klines.breakout

calculateEMACrossover(klines) ==
  IF klines.length < MinIndicatorKlines THEN "NONE" ELSE klines.crossover

\* A variant of the percent-change rule that rewrites the 5m labels only.
PercentChangeLabels5mOnly(labels, deltaVolume) ==
  IF labels.trend5min = "NEUTRAL" /\ labels.trend15min = "NEUTRAL"
  THEN IF deltaVolume > ChangeThreshold
       THEN [labels EXCEPT !.trend5min = "LONG", !.bollingerBandBreakout = "UP",
                           !.emaCrossover = "BULLISH"]
       ELSE IF deltaVolume < -ChangeThreshold
            THEN [labels EXCEPT !.trend5min = "SHORT", !.bollingerBandBreakout = "DOWN",
                                !.emaCrossover = "BEARISH"]
            ELSE labels
  ELSE labels

\* "Fallback to intelligent analysis based on price change if no klines":
\* the rule runs whenever both trend labels are NEUTRAL.
PercentChangeLabels(labels, deltaVolume) ==
  IF labels.trend5min = "NEUTRAL" /\ labels.trend15min = "NEUTRAL"
  THEN IF deltaVolume > ChangeThreshold
       THEN [trend5min |-> "LONG", trend15min |-> "LONG",
             bollingerBandBreakout |-> "UP", emaCrossover |-> "BULLISH"]
       ELSE IF deltaVolume < -ChangeThreshold
            THEN [trend5min |-> "SHORT", trend15min |-> "SHORT",
                  bollingerBandBreakout |-> "DOWN", emaCrossover |-> "BEARISH"]
            ELSE labels
  ELSE labels

\* The labels before the percent-change rule.
KlineLabels(calls) ==
  [trend5min |-> IF calls.klines5m # Nil
                 THEN TrendLabel(calls.klines5m[1]) ELSE "NEUTRAL",
   trend15min |-> IF calls.klines15m # Nil
                  THEN TrendLabel(calls.klines15m[1]) ELSE "NEUTRAL",
   bollingerBandBreakout |-> IF calls.klines5m # Nil
                             THEN calculateBollingerBreakout(calls.klines5m[1])
                             ELSE "NONE",
   emaCrossover |-> IF calls.klines5m # Nil
                    THEN calculateEMACrossover(calls.klines5m[1]) ELSE "NONE"]

\* klines.map is not a function: a fulfilled price-history call whose payload
\* is not an array makes the try block throw.
TryThrows(calls) ==
  \/ calls.klines5m # Nil /\ ~calls.klines5m[1].isArray
  \/ calls.klines15m # Nil /\ ~calls.klines15m[1].isArray

\* The object built in the catch block, from fresh draws.
CatchSnapshot(symbol, rnd) ==
  LET deltaVolume == rnd.deltaVolume
      isPositive == deltaVolume > 0
      trend == IF isPositive THEN "LONG"
               ELSE IF deltaVolume < -ChangeThreshold THEN "SHORT" ELSE "NEUTRAL"
  IN  [coin |-> symbol,
       currentPrice |-> rnd.price,
       volume |-> rnd.volume,
       openInterest |-> rnd.openInterest,
       fundingRate |-> rnd.fundingRate,
       longShortRatio |-> rnd.longShortRatio,
       deltaVolume |-> deltaVolume,
       trend5min |-> trend,
       trend15min |-> trend,
       bollingerBandBreakout |->
         IF isPositive /\ deltaVolume > BreakoutChangeThreshold THEN "UP"
         ELSE IF deltaVolume < -BreakoutChangeThreshold THEN "DOWN" ELSE "NONE",
       emaCrossover |->
         IF isPositive /\ deltaVolume > ChangeThreshold THEN "BULLISH"
         ELSE IF deltaVolume < -ChangeThreshold THEN "BEARISH" ELSE "NONE"]

\* rnd holds what getRealisticPrice and getRandom deliver in the try block,
\* again holds the draws of the catch block.
getRealBinanceData(symbol, calls, rnd, again) ==
  IF TryThrows(calls) THEN CatchSnapshot(symbol, again)
  ELSE
    LET deltaVolume == IF calls.ticker24h # Nil
                       THEN calls.ticker24h[1].priceChangePercent
                       ELSE rnd.deltaVolume
        labels == PercentChangeLabels(KlineLabels(calls), deltaVolume)
    IN  [coin |-> symbol,
         currentPrice |-> IF calls.price # Nil THEN calls.price[1] ELSE rnd.price,
         volume |-> IF calls.ticker24h # Nil
                    THEN calls.ticker24h[1].volume ELSE rnd.volume,
         openInterest |-> IF calls.openInterest # Nil
                          THEN calls.openInterest[1] ELSE rnd.openInterest,
         fundingRate |-> IF calls.funding # Nil /\ calls.funding[1] # << >>
                         THEN calls.funding[1][1] ELSE rnd.fundingRate,
         longShortRatio |-> IF calls.longShort # Nil /\ calls.longShort[1] # << >>
                            THEN calls.longShort[1][1] ELSE rnd.longShortRatio,
         deltaVolume |-> deltaVolume,
         trend5min |-> labels.trend5min,
         trend15min |-> labels.trend15min,
         bollingerBandBreakout |-> labels.bollingerBandBreakout,
         emaCrossover |-> labels.emaCrossover]

\* What the upstream calls can settle to.
KlinePayloads ==
  {[isArray |-> FALSE, length |-> 0, trend |-> "NEUTRAL", breakout |-> "NONE",
    crossover |-> "NONE"]}
  \cup
  {[isArray |-> TRUE, length |-> 5, trend |-> "LONG", breakout |-> "UP",
    crossover |-> "BULLISH"]}
  \cup
  {[isArray |-> TRUE, length |-> 20, trend |-> tr, breakout |-> ind[1],
    crossover |-> ind[2]] :
     tr \in TrendDirection,
     ind \in {<<"NONE", "NONE">>, <<"UP", "BULLISH">>, <<"DOWN", "BEARISH">>}}

TrendPayloads ==
  {[isArray |-> TRUE, length |-> 20, trend |-> tr, breakout |-> "NONE",
    crossover |-> "NONE"] : tr \in TrendDirection}

ChangeDraws == {-4, -3, -1, 0, 1, 3, 4}

MarketCalls ==
  [price : {Nil, Some(101)},
   ticker24h : {Nil} \cup {Some([volume |-> 7, priceChangePercent |-> d]) : d \in {-3, 0, 3}},
   funding : {Nil, Some(<< >>), Some(<<2>>)},
   longShort : {Nil, Some(<<13>>)},
   openInterest : {Nil, Some(9)},
   klines5m : {Nil} \cup {Some(k) : k \in KlinePayloads},
   klines15m : {Nil} \cup {Some(k) : k \in TrendPayloads}]

MarketDraws ==
  [price : {100}, volume : {5}, openInterest : {6}, fundingRate : {-1},
   longShortRatio : {10}, deltaVolume : ChangeDraws]

(***************************************************************************)
(* Liquidation fetcher: getRealCoinglassData, fetchCoinGlassWebData and    *)
(* the three approaches.  An endpoint's outcome is Nil when the call is    *)
(* rejected or its payload holds no figures, else Some of the latest       *)
(* long/short figures in whole dollars.                                    *)
(***************************************************************************)
SpikeFloor == 500000
SpikeMinimum == 1000000

\* Math.max over the figures of the three settled endpoints, from 0.
PrimaryFigures(apiCalls) ==
  LET long(i) == IF apiCalls[i] = Nil THEN 0 ELSE apiCalls[i][1].longLiq1h
      short(i) == IF apiCalls[i] = Nil THEN 0 ELSE apiCalls[i][1].shortLiq1h
  IN  [longLiq1h |-> Max(Max(long(1), long(2)), long(3)),
       shortLiq1h |-> Max(Max(short(1), short(2)), short(3))]

\* The first endpoint that answers with figures decides, zero or not.
RECURSIVE fetchFromCoinGlassAPI(_)
fetchFromCoinGlassAPI(endpoints) ==
  IF endpoints = << >> THEN Nil
  ELSE IF Head(endpoints) # Nil THEN Head(endpoints)
       ELSE fetchFromCoinGlassAPI(Tail(endpoints))

\* total is openInterest * basePrice * liquidationRate; funding is Nil when
\* the call is rejected, else the payload's array of rates (in units of
\* 1e-4).  An empty array makes data[0].fundingRate throw: null.
fetchFromAlternativeAPI(total, funding) ==
  IF total = Nil THEN Nil
  ELSE IF funding # Nil /\ funding[1] = << >> THEN Nil
  ELSE LET split == IF funding = Nil THEN <<5, 5>>
                    ELSE IF funding[1][1] > 0 THEN <<7, 3>> ELSE <<3, 7>>
           estimatedLongLiq == (total[1] * split[1]) \div 10
           estimatedShortLiq == (total[1] * split[2]) \div 10
       IN  IF estimatedLongLiq > 0 \/ estimatedShortLiq > 0
           THEN Some([longLiq1h |-> estimatedLongLiq, shortLiq1h |-> estimatedShortLiq])
           ELSE Nil

\* result && (result.longLiq1h > 0 || result.shortLiq1h > 0)
Usable(res) == res # Nil /\ (res[1].longLiq1h > 0 \/ res[1].shortLiq1h > 0)

\* "Enhanced liquidation spike detection"
DetectSpike(longLiq1h, shortLiq1h) ==
  IF longLiq1h + shortLiq1h > SpikeFloor
  THEN IF longLiq1h > SpikeMinimum /\ 2 * longLiq1h > 5 * Max(shortLiq1h, 1)
       THEN "LONG"
       ELSE IF shortLiq1h > SpikeMinimum /\ 5 * longLiq1h < 2 * Max(shortLiq1h, 1)
            THEN "SHORT" ELSE "NONE"
  ELSE "NONE"

\* The four getRandom draws that scale the 1h figures to 4h and 24h; whole
\* numbers inside the ranges (3.8, 4.2) and (22, 26), which also lie inside
\* the ranges (3.2, 4.8) and (18, 28) of the mock generator.
Multipliers ==
  {[long4h |-> 4, short4h |-> 4, long24h |-> 22, short24h |-> 25],
   [long4h |-> 4, short4h |-> 4, long24h |-> 25, short24h |-> 23]}

\* A variant that scales the 1h total by the long legs' draws.
SnapshotObjectScaledTotal(symbol, longLiq1h, shortLiq1h, m, liquidationSpike) ==
  [coin |-> symbol,
   totalLiquidations1h |-> longLiq1h + shortLiq1h,
   longLiquidations1h |-> longLiq1h,
   shortLiquidations1h |-> shortLiq1h,
   totalLiquidations4h |-> (longLiq1h + shortLiq1h) * m.long4h,
   longLiquidations4h |-> longLiq1h * m.long4h,
   shortLiquidations4h |-> shortLiq1h * m.short4h,
   totalLiquidations24h |-> (longLiq1h + shortLiq1h) * m.long24h,
   longLiquidations24h |-> longLiq1h * m.long24h,
   shortLiquidations24h |-> shortLiq1h * m.short24h,
   liquidationSpike |-> liquidationSpike]

\* The object literal both generators return.
SnapshotObject(symbol, longLiq1h, shortLiq1h, m, liquidationSpike) ==
  LET longLiq4h == longLiq1h * m.long4h
      shortLiq4h == shortLiq1h * m.short4h
      longLiq24h == longLiq1h * m.long24h
      shortLiq24h == shortLiq1h * m.short24h
  IN  [coin |-> symbol,
       totalLiquidations1h |-> longLiq1h + shortLiq1h,
       longLiquidations1h |-> longLiq1h,
       shortLiquidations1h |-> shortLiq1h,
       totalLiquidations4h |-> longLiq4h + shortLiq4h,
       longLiquidations4h |-> longLiq4h,
       shortLiquidations4h |-> shortLiq4h,
       totalLiquidations24h |-> longLiq24h + shortLiq24h,
       longLiquidations24h |-> longLiq24h,
       shortLiquidations24h |-> shortLiq24h,
       liquidationSpike |-> liquidationSpike]

\* The object getRealCoinglassData returns from its try block.
CoinglassSnapshot(symbol, longLiq1h, shortLiq1h, m) ==
  SnapshotObject(symbol, longLiq1h, shortLiq1h, m, DetectSpike(longLiq1h, shortLiq1h))

\* "Intelligent spike detection based on patterns": the volume test is
\* relative to the generator's own base, and no leg has a minimum.
MockSpike(baseLiquidation, longLiq1h, shortLiq1h) ==
  IF longLiq1h + shortLiq1h > baseLiquidation * 2
  THEN IF 2 * longLiq1h > 5 * Max(shortLiq1h, 1) THEN "LONG"
       ELSE IF 5 * longLiq1h < 2 * Max(shortLiq1h, 1) THEN "SHORT" ELSE "NONE"
  ELSE "NONE"

\* draw holds baseLiquidation = ln(price + 1) * 50000 * volatility and the
\* two legs, each the base times a factor in (0.3, 1.8).
generateEnhancedMockCoinglassData(symbol, draw, m) ==
  SnapshotObject(symbol, draw.longLiq1h, draw.shortLiq1h, m,
                 MockSpike(draw.baseLiquidation, draw.longLiq1h, draw.shortLiq1h))

\* What the calls can deliver.
EndpointOutcomes ==
  {Nil, Some([longLiq1h |-> 0, shortLiq1h |-> 0]),
   Some([longLiq1h |-> 1500000, shortLiq1h |-> 200000]),
   Some([longLiq1h |-> 900000, shortLiq1h |-> 100000]),
   Some([longLiq1h |-> 300000, shortLiq1h |-> 2000000])}

\* A fulfilled chart call whose data array ends in null: reading
\* latestData.longLiquidation throws inside the try block.
Malformed == Some([malformed |-> TRUE])
ChartOutcomes == EndpointOutcomes \cup {Malformed}

\* The history payload is read as an object and cannot throw.
ProcessingThrows(apiCalls) == apiCalls[1] = Malformed \/ apiCalls[3] = Malformed

\* What the mock generator can draw for BTCUSDT (base between 291,000 and
\* 1,164,000).
MockDraws ==
  {[baseLiquidation |-> 500000, longLiq1h |-> 900000, shortLiq1h |-> 150000],
   [baseLiquidation |-> 500000, longLiq1h |-> 150000, shortLiq1h |-> 900000],
   [baseLiquidation |-> 500000, longLiq1h |-> 500000, shortLiq1h |-> 450000],
   [baseLiquidation |-> 1000000, longLiq1h |-> 1800000, shortLiq1h |-> 300000]}

OpenInterestOutcomes == {Nil, Some(0), Some(1000000)}
FundingOutcomes == {Nil, Some(<< >>), Some(<<-1>>), Some(<<0>>), Some(<<1>>)}

\* generateRealisticLiquidationData: positive figures drawn at random.
SyntheticDraws ==
  {Some([longLiq1h |-> 40000, shortLiq1h |-> 90000]),
   Some([longLiq1h |-> 1200000, shortLiq1h |-> 100000])}

Unsettled(status) == [status |-> status, value |-> Nil]
Settled(value) == [status |-> "settled", value |-> value]

LiqIdle ==
  [pc |-> "primary", symbol |-> "BTCUSDT", apiCalls |-> << >>, path |-> "none",
   longLiq1h |-> 0, shortLiq1h |-> 0,
   api |-> Unsettled("idle"), alternative |-> Unsettled("idle"),
   synthetic |-> Unsettled("idle"), estimateIn |-> Nil, out |-> Nil]

(***************************************************************************)
(* State.                                                                  *)
(***************************************************************************)
VARIABLES
  apiKey,         \* config.openai.apiKey is set
  phase,          \* "running" until GET has built its response
  pc,             \* per coin: where dataPromise is suspended
  binanceData,    \* per coin: dataPromise's locals
  coinglassData,
  news,           \* per coin: the articles getCryptoNews resolved to
  newsSentiment,
  signal,
  race,           \* per coin: how Promise.race settled
  rpc,            \* per coin: where the catch block (reduced retry) is
  rBinanceData,   \* per coin: the catch block's locals
  rCoinglassData,
  result,         \* per coin: the value the coin's batch promise resolved to
  aiCalls,        \* per coin: number of analyzeSignalWithAI invocations
  providerReply,  \* per coin: what the provider answered to the validator
  signals,        \* the signals array after the flatten, before the sort
  response,       \* the JSON response
  scoreIn,        \* scorer check: the arguments
  scoreOut,       \* scorer check: the Signal returned
  fetchIn,        \* market fetch: the symbol, what the seven calls settled to,
                  \* and the values getRandom draws
  fetchOut,       \* market fetch: the snapshot returned
  liq,            \* liquidation fetch: the locals of getRealCoinglassData and
                  \* of fetchCoinGlassWebData, and the three approaches
  newsCall,       \* news provider: the arguments and the value returned
  trendCall,      \* calculateTrend: the klines and the label returned
  lazy,           \* the lazily initialised client: the module's OpenAI and
                  \* openai variables and each caller of initializeOpenAI
  pool            \* the batched start of the route: each coin's pipeline

vars == <<apiKey, phase, pc, binanceData, coinglassData, news, newsSentiment, signal,
          race, rpc, rBinanceData, rCoinglassData, result, aiCalls, providerReply,
          signals, response, scoreIn, scoreOut, fetchIn, fetchOut, liq,
          newsCall, trendCall, lazy, pool>>

pipeVars == <<pc, binanceData, coinglassData, news, newsSentiment, signal>>
retryVars == <<rpc, rBinanceData, rCoinglassData>>
routeVars == <<phase, signals, response>>
scoreVars == <<scoreIn, scoreOut>>
fetchVars == <<fetchIn, fetchOut>>
liqVars == <<liq>>
unitVars == <<newsCall, trendCall, lazy, pool>>

\* Nothing but the computation under consideration runs.
UnitsIdle == newsCall = Nil /\ trendCall = Nil /\ lazy = Nil /\ pool = Nil

(***************************************************************************)
(* The ranking and selection at the end of GET.                            *)
(***************************************************************************)
\* s.aiAnalysis?.signalValidation.isValid
IsValid(s) == s.aiAnalysis # Nil /\ s.aiAnalysis[1].signalValidation[1].isValid

\* The same expression throws a TypeError when the attached analysis has no
\* signalValidation member.
IsValidThrows(s) == s.aiAnalysis # Nil /\ s.aiAnalysis[1].signalValidation = Nil

\* A variant that compares the category before the validity.
CompareSignalsCategoryFirst(a, b) ==
  IF a.signal = NoSignal /\ b.signal # NoSignal THEN 1
  ELSE IF b.signal = NoSignal /\ a.signal # NoSignal THEN -1
  ELSE IF IsValid(a) /\ ~IsValid(b) THEN -1
  ELSE IF ~IsValid(a) /\ IsValid(b) THEN 1
  ELSE b.confidence - a.confidence

\* The comparator handed to signals.sort.
CompareSignals(a, b) ==
  IF IsValid(a) /\ ~IsValid(b) THEN -1
  ELSE IF ~IsValid(a) /\ IsValid(b) THEN 1
  ELSE IF a.signal = NoSignal /\ b.signal # NoSignal THEN 1
  ELSE IF b.signal = NoSignal /\ a.signal # NoSignal THEN -1
  ELSE b.confidence - a.confidence

\* Array.prototype.sort is stable: an element goes in front of the first
\* element it compares strictly less than.
RECURSIVE InsertSorted(_, _)
InsertSorted(x, sorted) ==
  IF sorted = << >> THEN <<x>>
  ELSE IF CompareSignals(x, Head(sorted)) < 0 THEN <<x>> \o sorted
       ELSE <<Head(sorted)>> \o InsertSorted(x, Tail(sorted))

RECURSIVE SortSignals(_)
SortSignals(list) ==
  IF list = << >> THEN << >>
  ELSE InsertSorted(list[Len(list)], SortSignals(SubSeq(list, 1, Len(list) - 1)))

\* Array.prototype.slice(0, n)
SliceFirst(list, n) == SubSeq(list, 1, Min(n, Len(list)))

\* A variant that always answers with the signals of confidence >= 70.
BuildResponseFilterOnly(collected) ==
  LET sorted == SortSignals(collected)
      highConfidenceSignals ==
        SelectSeq(sorted, LAMBDA s : s.confidence >= MinimumConfidence)
  IN  [status |-> 200, error |-> "",
       signals |-> highConfidenceSignals,
       totalProcessed |-> Len(sorted),
       highConfidenceCount |-> Len(highConfidenceSignals),
       aiValidatedCount |-> Len(SelectSeq(sorted, IsValid))]

\* A variant that always answers with the first 25 of the sorted list.
BuildResponseTopOnly(collected) ==
  LET sorted == SortSignals(collected)
      highConfidenceSignals ==
        SelectSeq(sorted, LAMBDA s : s.confidence >= MinimumConfidence)
  IN  [status |-> 200, error |-> "",
       signals |-> SliceFirst(sorted, TopCount),
       totalProcessed |-> Len(sorted),
       highConfidenceCount |-> Len(highConfidenceSignals),
       aiValidatedCount |-> Len(SelectSeq(sorted, IsValid))]

\* The body of the inner try once Promise.all has resolved: sort, filter,
\* select, respond; the inner catch builds the "Processing error" response.
BuildResponse(collected) ==
  IF \E i \in DOMAIN collected : IsValidThrows(collected[i])
  THEN [status |-> 500, error |-> "Processing error",
        signals |-> SliceFirst(collected, ErrorSliceCount),
        totalProcessed |-> Len(collected),
        highConfidenceCount |-> 0, aiValidatedCount |-> 0]
  ELSE LET sorted == SortSignals(collected)
           highConfidenceSignals ==
             SelectSeq(sorted, LAMBDA s : s.confidence >= MinimumConfidence)
           aiValidatedSignals == SelectSeq(sorted, IsValid)
       IN  [status |-> 200, error |-> "",
            signals |-> IF Len(highConfidenceSignals) >= MinHighConfidence
                        THEN highConfidenceSignals
                        ELSE SliceFirst(sorted, TopCount),
            totalProcessed |-> Len(sorted),
            highConfidenceCount |-> Len(highConfidenceSignals),
            aiValidatedCount |-> Len(aiValidatedSignals)]

\* A variant that cuts the list into pieces of BATCH_SIZE + 1 symbols.
BatchesOversized(list) ==
  [b \in 1..((Len(list) + BATCH_SIZE) \div (BATCH_SIZE + 1)) |->
     SubSeq(list, (b - 1) * (BATCH_SIZE + 1) + 1, Min(b * (BATCH_SIZE + 1), Len(list)))]

\* for (i = 0; i < coins.length; i += BATCH_SIZE) batches.push(coins.slice(i, i + BATCH_SIZE))
Batches(list) ==
  [b \in 1..((Len(list) + BATCH_SIZE - 1) \div BATCH_SIZE) |->
     SubSeq(list, (b - 1) * BATCH_SIZE + 1, Min(b * BATCH_SIZE, Len(list)))]

\* A variant that has no value for a pipeline whose race the timer won.
BatchResultsDataOnly(batch, settled) ==
  LET kept == SelectSeq(batch, LAMBDA c : race[c] = "data")
  IN  [i \in DOMAIN kept |-> settled[kept[i]][1]]

\* The fulfilled values of one batch, in the batch's order.
BatchResults(batch, settled) == [i \in DOMAIN batch |-> settled[batch[i]][1]]

\* allResults.forEach(batchResults => signals.push(...batchResults))
RECURSIVE Flatten(_)
Flatten(lists) ==
  IF lists = << >> THEN << >> ELSE Head(lists) \o Flatten(Tail(lists))

\* The signals array after the flatten, for a symbol list and the values
\* its pipelines resolved to.
CollectOver(list, settled) ==
  LET batches == Batches(list)
  IN  Flatten([b \in DOMAIN batches |-> BatchResults(batches[b], settled)])

CollectSignals(settled) == CollectOver(coins, settled)

(***************************************************************************)
(* Initial state: GET has created every coin's pipeline.                   *)
(***************************************************************************)
IdlePipelines ==
  /\ pc = [c \in Coins |-> "fetch"]
  /\ binanceData = [c \in Coins |-> Nil]
  /\ coinglassData = [c \in Coins |-> Nil]
  /\ news = [c \in Coins |-> Nil]
  /\ newsSentiment = [c \in Coins |-> Nil]
  /\ signal = [c \in Coins |-> Nil]
  /\ race = [c \in Coins |-> "pending"]
  /\ rpc = [c \in Coins |-> "idle"]
  /\ rBinanceData = [c \in Coins |-> Nil]
  /\ rCoinglassData = [c \in Coins |-> Nil]
  /\ result = [c \in Coins |-> Nil]
  /\ aiCalls = [c \in Coins |-> 0]
  /\ providerReply = [c \in Coins |-> Nil]
  /\ response = Nil

Init ==
  /\ apiKey \in BOOLEAN
  /\ phase = "running"
  /\ IdlePipelines
  /\ signals = << >>
  /\ scoreIn = Nil
  /\ scoreOut = Nil
  /\ fetchIn = Nil
  /\ fetchOut = Nil
  /\ liq = LiqIdle
  /\ UnitsIdle

(***************************************************************************)
(* The full computation (dataPromise) of one coin.                         *)
(***************************************************************************)
\* Promise.race is still unsettled, so dataPromise's value is what the
\* pipeline returns.
DataWinsAlways(c) == TRUE

DataWins(c) == race[c] = "pending"

\* dataPromise resolves with sig.
Complete(c, sig) ==
  /\ pc' = [pc EXCEPT ![c] = "done"]
  /\ signal' = [signal EXCEPT ![c] = Some(sig)]
  /\ IF DataWins(c)
     THEN /\ race' = [race EXCEPT ![c] = "data"]
          /\ result' = [result EXCEPT ![c] = Some(sig)]
     ELSE UNCHANGED <<race, result>>

\* Promise.all([getRealBinanceData(coin), getRealCoinglassData(coin)])
FetchData(c) ==
  /\ pc[c] = "fetch"
  /\ \E b \in BinanceSamples(c), g \in CoinglassSamples(c) :
       /\ binanceData' = [binanceData EXCEPT ![c] = Some(b)]
       /\ coinglassData' = [coinglassData EXCEPT ![c] = Some(g)]
  /\ pc' = [pc EXCEPT ![c] = "news"]
  /\ UNCHANGED <<apiKey, news, newsSentiment, signal, race, result, aiCalls, providerReply>>
  /\ UNCHANGED <<retryVars, routeVars, scoreVars, fetchVars, liqVars, unitVars>>

\* getCryptoNews(coin): always resolves to a list of articles.
FetchNews(c) ==
  /\ pc[c] = "news"
  /\ \E items \in NewsSamples(c) : news' = [news EXCEPT ![c] = Some(items)]
  /\ pc' = [pc EXCEPT ![c] = "sentiment"]
  /\ UNCHANGED <<apiKey, binanceData, coinglassData, newsSentiment, signal, race,
                 result, aiCalls, providerReply>>
  /\ UNCHANGED <<retryVars, routeVars, scoreVars, fetchVars, liqVars, unitVars>>

\* analyzeNewsSentiment resolves; generateSignal runs; the validator is
\* called when shouldAnalyzeWithAI.  Without a client the validator returns
\* null at once and dataPromise resolves with the scored signal.
ScoreSignal(c) ==
  /\ pc[c] = "sentiment"
  /\ \E sentiment \in (IF apiKey THEN NewsSentiment ELSE {"NEUTRAL"}) :
       LET sig == generateSignal(binanceData[c][1], coinglassData[c][1], sentiment)
           call == shouldAnalyzeWithAI(sig, c) /\ aiAnalysisEnabled
       IN  /\ newsSentiment' = [newsSentiment EXCEPT ![c] = Some(sentiment)]
           /\ aiCalls' = [aiCalls EXCEPT ![c] = IF call THEN @ + 1 ELSE @]
           /\ IF call /\ apiKey
              THEN /\ pc' = [pc EXCEPT ![c] = "validate"]
                   /\ signal' = [signal EXCEPT ![c] = Some(sig)]
                   /\ UNCHANGED <<race, result>>
              ELSE Complete(c, ApplyValidation(sig,
                     IF call THEN analyzeSignalWithAI(sig, news[c][1], apiKey, NoReply)
                     ELSE Nil))
  /\ UNCHANGED <<apiKey, binanceData, coinglassData, news, providerReply>>
  /\ UNCHANGED <<retryVars, routeVars, scoreVars, fetchVars, liqVars, unitVars>>

\* The provider call of analyzeSignalWithAI settles; the analysis is attached
\* and the confidence capped; dataPromise resolves.
Validate(c) ==
  /\ pc[c] = "validate"
  /\ \E reply \in ProviderReplies :
       /\ providerReply' = [providerReply EXCEPT ![c] = Some(reply)]
       /\ Complete(c, ApplyValidation(signal[c][1],
                        analyzeSignalWithAI(signal[c][1], news[c][1], apiKey, reply)))
  /\ UNCHANGED <<apiKey, binanceData, coinglassData, news, newsSentiment, aiCalls>>
  /\ UNCHANGED <<retryVars, routeVars, scoreVars, fetchVars, liqVars, unitVars>>

(***************************************************************************)
(* The 8 s timer and the catch block (reduced retry).                      *)
(***************************************************************************)
TimerNeverSet(c) == FALSE

\* setTimeout(() => reject(new Error('Timeout')), 8000) fires while the race
\* is unsettled.
TimerFires(c) == race[c] = "pending"

Timeout(c) ==
  /\ phase = "running"
  /\ TimerFires(c)
  /\ race' = [race EXCEPT ![c] = "timeout"]
  /\ rpc' = [rpc EXCEPT ![c] = "binance"]
  /\ UNCHANGED <<apiKey, result, aiCalls, providerReply, rBinanceData, rCoinglassData>>
  /\ UNCHANGED <<pipeVars, routeVars, scoreVars, fetchVars, liqVars, unitVars>>

\* const binanceData = await getRealBinanceData(coin)
RetryBinance(c) ==
  /\ phase = "running"
  /\ rpc[c] = "binance"
  /\ \E b \in BinanceSamples(c) :
       rBinanceData' = [rBinanceData EXCEPT ![c] = Some(b)]
  /\ rpc' = [rpc EXCEPT ![c] = "coinglass"]
  /\ UNCHANGED <<apiKey, race, result, aiCalls, providerReply, rCoinglassData>>
  /\ UNCHANGED <<pipeVars, routeVars, scoreVars, fetchVars, liqVars, unitVars>>

\* const signal = await generateSignal(binanceData, coinglassData, 'NEUTRAL')
RetrySignal(c, b, g) == generateSignal(b, g, "NEUTRAL")

\* const coinglassData = await getRealCoinglassData(coin); score; return.
RetryCoinglass(c) ==
  /\ phase = "running"
  /\ rpc[c] = "coinglass"
  /\ \E g \in CoinglassSamples(c) :
       /\ rCoinglassData' = [rCoinglassData EXCEPT ![c] = Some(g)]
       /\ result' = [result EXCEPT ![c] = Some(RetrySignal(c, rBinanceData[c][1], g))]
  /\ rpc' = [rpc EXCEPT ![c] = "done"]
  /\ UNCHANGED <<apiKey, race, aiCalls, providerReply, rBinanceData>>
  /\ UNCHANGED <<pipeVars, routeVars, scoreVars, fetchVars, liqVars, unitVars>>

(***************************************************************************)
(* await Promise.all(allBatchPromises) resolves: flatten, sort, select,    *)
(* respond.                                                                *)
(***************************************************************************)
Respond ==
  /\ phase = "running"
  /\ \A c \in Coins : result[c] # Nil
  /\ signals' = CollectSignals(result)
  /\ response' = Some(BuildResponse(signals'))
  /\ phase' = "responded"
  /\ UNCHANGED <<apiKey, race, result, aiCalls, providerReply>>
  /\ UNCHANGED <<pipeVars, retryVars, scoreVars, fetchVars, liqVars, unitVars>>

Next ==
  \/ \E c \in Coins : FetchData(c)
  \/ \E c \in Coins : FetchNews(c)
  \/ \E c \in Coins : ScoreSignal(c)
  \/ \E c \in Coins : Validate(c)
  \/ \E c \in Coins : Timeout(c)
  \/ \E c \in Coins : RetryBinance(c)
  \/ \E c \in Coins : RetryCoinglass(c)
  \/ Respond

Spec == Init /\ [][Next]_vars

\* The event loop runs whatever is ready: a timer that is due fires
\* (setTimeout), the fetchers of the catch block settle (every axios call in
\* them carries a timeout) and the route's continuation runs.  The provider
\* calls of the full computation have no timeout of their own and get no
\* fairness.
Scheduled ==
  \/ \E c \in Coins : Timeout(c)
  \/ \E c \in Coins : RetryBinance(c)
  \/ \E c \in Coins : RetryCoinglass(c)
  \/ Respond

Fairness == WF_vars(Scheduled)

FairSpec == Spec /\ Fairness

(***************************************************************************)
(* The scorer on its own: every input of the bounded input space.          *)
(***************************************************************************)
InitScore ==
  /\ apiKey = FALSE
  /\ phase = "idle"
  /\ IdlePipelines
  /\ signals = << >>
  /\ scoreIn \in {Some([binanceData |-> b, coinglassData |-> g]) :
                    b \in BinanceInputs, g \in CoinglassInputs}
  /\ scoreOut = Nil
  /\ fetchIn = Nil
  /\ fetchOut = Nil
  /\ liq = LiqIdle
  /\ UnitsIdle

ScoreStep ==
  /\ scoreOut = Nil
  /\ \E sentiment \in SentimentTexts :
       scoreOut' = Some([newsSentiment |-> sentiment,
                         signal |-> generateSignal(scoreIn[1].binanceData,
                                                   scoreIn[1].coinglassData,
                                                   sentiment)])
  /\ UNCHANGED <<apiKey, race, result, aiCalls, providerReply, scoreIn>>
  /\ UNCHANGED <<pipeVars, retryVars, routeVars, fetchVars, liqVars, unitVars>>

NextScore == ScoreStep

SpecScore == InitScore /\ [][NextScore]_vars

(***************************************************************************)
(* The ranking on its own: lists of collected signals over a longer prefix *)
(* of the route's symbol list.                                             *)
(***************************************************************************)
MaxRank == 28

RankSizes == {4, BATCH_SIZE, MaxRank}

\* The first symbols of the route's list.
rankCoins ==
  <<"BTCUSDT", "ETHUSDT", "BNBUSDT", "XRPUSDT", "SOLUSDT", "DOGEUSDT", "ADAUSDT",
    "DOTUSDT", "LTCUSDT", "BCHUSDT", "AVAXUSDT", "LINKUSDT", "MATICUSDT", "UNIUSDT",
    "ATOMUSDT", "FTMUSDT", "NEARUSDT", "ALGOUSDT", "VETUSDT", "ICPUSDT", "ARBUSDT",
    "OPUSDT", "LRCUSDT", "IMXUSDT", "STRKUSDT", "SHIBUSDT", "PEPEUSDT", "FLOKIUSDT",
    "BONKUSDT", "WIFUSDT">>

\* What dataPromise resolves to with a client, for a snapshot pair, a
\* sentiment and a provider answer.
FullSignal(c, b, g, sentiment, reply) ==
  LET sig == generateSignal(b, g, sentiment)
  IN  IF shouldAnalyzeWithAI(sig, c) /\ aiAnalysisEnabled
      THEN ApplyValidation(sig,
             analyzeSignalWithAI(sig, NewsOf(c), TRUE, reply))
      ELSE sig

JsonReply(valid) ==
  [kind |-> "json", hasNewsAnalysis |-> TRUE,
   signalValidation |-> Some([isValid |-> valid, confidence |-> 50])]

\* The Signal the pipeline of coin c returns in the run described by the
\* number k: full computations and reduced retries over both market samples,
\* with valid and invalid provider answers.
RankOutcome(c, k, high) ==
  LET rally == CHOOSE b \in BinanceSamples(c) : b.trend5min = "LONG"
      flat == CHOOSE b \in BinanceSamples(c) : b.trend5min = "NEUTRAL"
      g == CHOOSE x \in CoinglassSamples(c) : TRUE
  IN  IF k < high
      THEN IF k % 2 = 0 THEN FullSignal(c, rally, g, "BULLISH", JsonReply(TRUE))
           ELSE RetrySignal(c, rally, g)
      ELSE CASE k % 4 = 0 -> FullSignal(c, rally, g, "BULLISH", JsonReply(FALSE))
             [] k % 4 = 1 -> RetrySignal(c, flat, g)
             [] k % 4 = 2 -> FullSignal(c, rally, g, "BEARISH", JsonReply(TRUE))
             [] OTHER -> FullSignal(c, flat, g, "NEUTRAL", JsonReply(TRUE))

\* The values the pipelines of the first n symbols resolved to.
RankSettled(n, step, high) ==
  [c \in {rankCoins[i] : i \in 1..n} |->
     LET i == CHOOSE j \in 1..n : rankCoins[j] = c
     IN  Some(RankOutcome(c, (i * step) % (n + 1), high))]

RankInputs ==
  {CollectOver(SubSeq(rankCoins, 1, n), RankSettled(n, step, high)) :
     n \in RankSizes, step \in {1, 3}, high \in 0..MaxRank}

InitRank ==
  /\ apiKey = TRUE
  /\ phase = "ranking"
  /\ IdlePipelines
  /\ signals \in RankInputs
  /\ scoreIn = Nil
  /\ scoreOut = Nil
  /\ fetchIn = Nil
  /\ fetchOut = Nil
  /\ liq = LiqIdle
  /\ UnitsIdle

\* signals.sort(...), the two filters, the selection and the response.
RankStep ==
  /\ phase = "ranking"
  /\ response' = Some(BuildResponse(signals))
  /\ phase' = "ranked"
  /\ UNCHANGED <<apiKey, race, result, aiCalls, providerReply, signals>>
  /\ UNCHANGED <<pipeVars, retryVars, scoreVars, fetchVars, liqVars, unitVars>>

NextRank == RankStep

SpecRank == InitRank /\ [][NextRank]_vars

(***************************************************************************)
(* The market fetcher on its own: every combination of settled calls.      *)
(***************************************************************************)
InitMarket ==
  /\ apiKey = FALSE
  /\ phase = "idle"
  /\ IdlePipelines
  /\ signals = << >>
  /\ scoreIn = Nil
  /\ scoreOut = Nil
  /\ fetchIn \in {Some([symbol |-> "BTCUSDT", calls |-> calls, rnd |-> rnd]) :
                    calls \in MarketCalls, rnd \in MarketDraws}
  /\ fetchOut = Nil
  /\ liq = LiqIdle
  /\ UnitsIdle

\* await Promise.allSettled([...]) resolves and the function returns.
FetchStep ==
  /\ fetchOut = Nil
  /\ \E again \in MarketDraws :
       fetchOut' = Some([again |-> again,
                         data |-> getRealBinanceData(fetchIn[1].symbol, fetchIn[1].calls,
                                                     fetchIn[1].rnd, again)])
  /\ UNCHANGED <<apiKey, race, result, aiCalls, providerReply, fetchIn>>
  /\ UNCHANGED <<pipeVars, retryVars, routeVars, scoreVars, liqVars, unitVars>>

NextMarket == FetchStep

SpecMarket == InitMarket /\ [][NextMarket]_vars

(***************************************************************************)
(* The liquidation fetcher on its own, one step per await.                 *)
(***************************************************************************)
InitLiq ==
  /\ apiKey = FALSE
  /\ phase = "idle"
  /\ IdlePipelines
  /\ signals = << >>
  /\ scoreIn = Nil
  /\ scoreOut = Nil
  /\ fetchIn = Nil
  /\ fetchOut = Nil
  /\ liq = LiqIdle
  /\ UnitsIdle

LiqUnchanged ==
  /\ UNCHANGED <<apiKey, race, result, aiCalls, providerReply>>
  /\ UNCHANGED <<pipeVars, retryVars, routeVars, scoreVars, fetchVars, unitVars>>

\* The rest of getRealCoinglassData once the 1h figures are known.
LiqReturn(state, path, longLiq1h, shortLiq1h, m) ==
  [state EXCEPT !.pc = "done", !.path = path,
                !.longLiq1h = longLiq1h, !.shortLiq1h = shortLiq1h,
                !.out = Some(CoinglassSnapshot(state.symbol, longLiq1h, shortLiq1h, m))]

\* The catch block of getRealCoinglassData.
LiqCatch(state, draw, m) ==
  [state EXCEPT !.pc = "done", !.path = "fallback",
                !.out = Some(generateEnhancedMockCoinglassData(state.symbol, draw, m))]

\* const approaches = [fetchFromCoinGlassAPI(coin), fetchFromAlternativeAPI(coin),
\* generateRealisticLiquidationData(coin)]: the two async functions run up to
\* their first await, the generator runs to its end.
StartApproaches(state, draw) ==
  [state EXCEPT !.api = Unsettled("pending"),
                !.alternative = Unsettled("pending"),
                !.synthetic = Settled(draw)]

\* await Promise.allSettled of the three liquidation endpoints resolves; a
\* payload that makes the processing throw leads to the catch block; with a
\* non-zero figure the function returns, else fetchCoinGlassWebData is
\* called and suspends at its first await.
PrimarySettles ==
  /\ liq.pc = "primary"
  /\ \E e1, e3 \in ChartOutcomes, e2 \in EndpointOutcomes, draw \in SyntheticDraws,
        mock \in MockDraws, m \in Multipliers :
       LET apiCalls == <<e1, e2, e3>>
           figures == PrimaryFigures(apiCalls)
           settled == [liq EXCEPT !.apiCalls = apiCalls]
       IN  liq' = IF ProcessingThrows(apiCalls) THEN LiqCatch(settled, mock, m)
                  ELSE IF figures.longLiq1h = 0 /\ figures.shortLiq1h = 0
                  THEN [StartApproaches(settled, draw) EXCEPT !.pc = "await1"]
                  ELSE LiqReturn(settled, "primary", figures.longLiq1h,
                                 figures.shortLiq1h, m)
  /\ LiqUnchanged

\* fetchFromCoinGlassAPI resolves.
ApiSettles ==
  /\ liq.api.status = "pending"
  /\ \E e1, e2, e3 \in EndpointOutcomes :
       liq' = [liq EXCEPT !.api = Settled(fetchFromCoinGlassAPI(<<e1, e2, e3>>))]
  /\ LiqUnchanged

\* fetchFromAlternativeAPI resolves.
AlternativeSettles ==
  /\ liq.alternative.status = "pending"
  /\ \E total \in OpenInterestOutcomes, funding \in FundingOutcomes :
       liq' = [liq EXCEPT !.alternative = Settled(fetchFromAlternativeAPI(total, funding)),
                          !.estimateIn = Some([total |-> total, funding |-> funding])]
  /\ LiqUnchanged

\* One turn of the for loop over the approaches: the awaited approach has
\* settled; a usable result is returned, else the next approach is awaited.
\* The generator's figures are positive, so the loop returns at the third
\* turn at the latest and the "final fallback" after it is never reached.
LoopTurn(here, approach, next) ==
  /\ liq.pc = here
  /\ approach.status = "settled"
  /\ \E m \in Multipliers :
       liq' = IF Usable(approach.value)
              THEN LiqReturn(liq, here, approach.value[1].longLiq1h,
                             approach.value[1].shortLiq1h, m)
              ELSE [liq EXCEPT !.pc = next]
  /\ LiqUnchanged

NextLiq ==
  \/ PrimarySettles
  \/ ApiSettles
  \/ AlternativeSettles
  \/ LoopTurn("await1", liq.api, "await2")
  \/ LoopTurn("await2", liq.alternative, "await3")
  \/ LoopTurn("await3", liq.synthetic, "final")

SpecLiq == InitLiq /\ [][NextLiq]_vars

(***************************************************************************)
(* The news provider on its own: getCryptoNews, then analyzeNewsSentiment  *)
(* on the list it returned, as dataPromise calls them; MaxCalls requests   *)
(* for the same symbol follow one another.                                 *)
(***************************************************************************)
MaxCalls == 2

\* An article of the NewsAPI payload.
Article(i) ==
  [title |-> <<"article", i>>, description |-> "text", url |-> <<"newsapi", i>>,
   publishedAt |-> SampleTime - i]

\* What the NewsAPI request can settle to: Nil when it is rejected, else the
\* payload's articles.
NewsResponses ==
  {Nil, Some(<< >>), Some([i \in 1..2 |-> Article(i)]), Some([i \in 1..7 |-> Article(i)])}

\* now is what Date.now() returns when the fallback list is built.
getCryptoNews(coin, newsApiKey, newsApiResponse, now) ==
  LET coinName == StripUSDT[coin]
      articles == IF newsApiKey /\ newsApiResponse # Nil
                  THEN SliceFirst(newsApiResponse[1], 5) ELSE << >>
      pushed == [i \in 1..Len(articles) |->
                   [title |-> articles[i].title,
                    summary |-> articles[i].description,
                    url |-> articles[i].url,
                    publishedAt |-> articles[i].publishedAt,
                    sentiment |-> "NEUTRAL",
                    impact |-> "MEDIUM",
                    relevantCoins |-> <<coin>>]]
      list == IF Len(pushed) = 0 THEN generateFallbackNews(coinName, now) ELSE pushed
  IN  SliceFirst(list, maxNewsArticles)

\* String.prototype.trim on the texts the provider is taken to answer.
Trim(text) ==
  CASE text = " BEARISH\n" -> "BEARISH"
    [] text = " " -> ""
    [] OTHER -> text

\* What chat.completions.create can settle to: Nil when it throws, Some(<< >>)
\* when choices is empty, else the content of the first choice.
SentimentReplies ==
  {Nil, Some(<< >>), Some(<<"BULLISH">>), Some(<<" BEARISH\n">>), Some(<<" ">>),
   Some(<<"Bullish.">>)}

\* (sentiment as NewsSentiment) || 'NEUTRAL': the cast checks nothing.
analyzeNewsSentiment(items, aiClient, reply) ==
  IF ~aiClient \/ Len(items) = 0 THEN "NEUTRAL"
  ELSE IF reply = Nil THEN "NEUTRAL"
  ELSE IF reply[1] = << >> THEN "NEUTRAL"
  ELSE IF Trim(reply[1][1]) = "" THEN "NEUTRAL"
  ELSE Trim(reply[1][1])

InitNews ==
  /\ apiKey = FALSE
  /\ phase = "idle"
  /\ IdlePipelines
  /\ signals = << >>
  /\ scoreIn = Nil
  /\ scoreOut = Nil
  /\ fetchIn = Nil
  /\ fetchOut = Nil
  /\ liq = LiqIdle
  /\ trendCall = Nil /\ lazy = Nil /\ pool = Nil
  /\ newsCall \in [coin : Coins, newsApiKey : BOOLEAN, aiClient : BOOLEAN,
                    pc : {"news"}, calls : {<< >>}]

NewsUnchanged ==
  /\ UNCHANGED <<apiKey, race, result, aiCalls, providerReply>>
  /\ UNCHANGED <<pipeVars, retryVars, routeVars, scoreVars, fetchVars, liqVars>>
  /\ UNCHANGED <<trendCall, lazy, pool>>

\* const news = await getCryptoNews(coin)
GetNewsStep ==
  /\ newsCall.pc = "news"
  /\ Len(newsCall.calls) < MaxCalls
  /\ \E newsApiResponse \in NewsResponses, now \in Clock :
       /\ \A k \in DOMAIN newsCall.calls : newsCall.calls[k].now <= now
       /\ newsCall' =
            [newsCall EXCEPT
               !.pc = "sentiment",
               !.calls = Append(@, [response |-> newsApiResponse, now |-> now,
                                    news |-> getCryptoNews(newsCall.coin,
                                               newsCall.newsApiKey,
                                               newsApiResponse, now),
                                    reply |-> Nil, newsSentiment |-> Nil])]
  /\ NewsUnchanged

\* const newsSentiment = await analyzeNewsSentiment(news); the provider is
\* called only with a client.
SentimentStep ==
  /\ newsCall.pc = "sentiment"
  /\ \E reply \in (IF newsCall.aiClient THEN SentimentReplies ELSE {Nil}) :
       LET k == Len(newsCall.calls)
       IN  newsCall' =
             [newsCall EXCEPT
                !.pc = "news",
                !.calls[k].reply = reply,
                !.calls[k].newsSentiment =
                    Some(analyzeNewsSentiment(newsCall.calls[k].news,
                                              newsCall.aiClient, reply))]
  /\ NewsUnchanged

NextNews == GetNewsStep \/ SentimentStep

SpecNews == InitNews /\ [][NextNews]_vars

(***************************************************************************)
(* The batched start of GET over a list longer than one batch.  What a     *)
(* pipeline computes is left out; it is started, and later its promise     *)
(* settles.                                                                *)
(***************************************************************************)
MaxPool == 14

poolCoins == SubSeq(rankCoins, 1, MaxPool)
PoolCoins == {poolCoins[i] : i \in DOMAIN poolCoins}

InitPool ==
  /\ apiKey = FALSE
  /\ phase = "idle"
  /\ IdlePipelines
  /\ signals = << >>
  /\ scoreIn = Nil
  /\ scoreOut = Nil
  /\ fetchIn = Nil
  /\ fetchOut = Nil
  /\ liq = LiqIdle
  /\ newsCall = Nil /\ trendCall = Nil /\ lazy = Nil
  /\ pool = [pc |-> "start", batches |-> << >>,
             status |-> [c \in PoolCoins |-> "idle"], settled |-> {}]

PoolUnchanged ==
  /\ UNCHANGED <<apiKey, race, result, aiCalls, providerReply>>
  /\ UNCHANGED <<pipeVars, retryVars, routeVars, scoreVars, fetchVars, liqVars>>
  /\ UNCHANGED <<newsCall, trendCall, lazy>>

\* The loop that cuts the list and batches.map(async (batch) => ...): the
\* callback of each batch calls batch.map(async (coin) => ...), which runs
\* every pipeline of the batch up to its first await, and then suspends at
\* await Promise.allSettled; map goes on with the next batch at once.
StartBatches ==
  /\ pool.pc = "start"
  /\ pool' = [pool EXCEPT !.pc = "await", !.batches = Batches(poolCoins),
                          !.status = [c \in PoolCoins |-> "running"]]
  /\ PoolUnchanged

\* The promise of one coin's pipeline settles (by the full computation or
\* by the reduced retry).
PipelineSettles(c) ==
  /\ pool.status[c] = "running"
  /\ pool' = [pool EXCEPT !.status[c] = "settled"]
  /\ PoolUnchanged

\* await Promise.allSettled(batchPromises) of one batch resumes.
BatchSettles(b) ==
  /\ b \notin pool.settled
  /\ \A i \in DOMAIN pool.batches[b] : pool.status[pool.batches[b][i]] = "settled"
  /\ pool' = [pool EXCEPT !.settled = @ \cup {b}]
  /\ PoolUnchanged

\* await Promise.all(allBatchPromises) resumes.
AllBatchesSettle ==
  /\ pool.pc = "await"
  /\ pool.settled = DOMAIN pool.batches
  /\ pool' = [pool EXCEPT !.pc = "done"]
  /\ PoolUnchanged

NextPool ==
  \/ StartBatches
  \/ \E c \in PoolCoins : PipelineSettles(c)
  \/ \E b \in DOMAIN pool.batches : BatchSettles(b)
  \/ AllBatchesSettle

SpecPool == InitPool /\ [][NextPool]_vars

(***************************************************************************)
(* calculateTrend on its own: candle arrays whose closes are decimal texts *)
(* with one fractional digit.  An array is an optional older candle, five  *)
(* previous closes and five recent closes; a short array lacks its last    *)
(* candle.  The function is called twice on the same array.                *)
(***************************************************************************)
CloseText(d) == [digits |-> d, scale |-> 1]

Flat(d) == [i \in 1..TrendWindow |-> CloseText(d)]
Wave(d) == <<CloseText(d - 1), CloseText(d + 1), CloseText(d), CloseText(d + 2),
             CloseText(d - 2)>>

TrendLevels == {499, 500, 501, 998, 1000, 1002, 1004, 24950, 25000, 25050}

TrendInputs ==
  LET full == {lead \o Flat(p) \o recent :
                 lead \in {<< >>, <<CloseText(5000)>>},
                 p \in TrendLevels,
                 recent \in {Flat(r) : r \in TrendLevels} \cup {Wave(r) : r \in TrendLevels}}
  IN  full \cup {SubSeq(k, 1, Len(k) - 1) : k \in {x \in full : Len(x) = MinTrendKlines}}

InitTrend ==
  /\ apiKey = FALSE
  /\ phase = "idle"
  /\ IdlePipelines
  /\ signals = << >>
  /\ scoreIn = Nil
  /\ scoreOut = Nil
  /\ fetchIn = Nil
  /\ fetchOut = Nil
  /\ liq = LiqIdle
  /\ newsCall = Nil /\ lazy = Nil /\ pool = Nil
  /\ trendCall \in [klines : TrendInputs, trends : {<< >>}]

TrendUnchanged ==
  /\ UNCHANGED <<apiKey, race, result, aiCalls, providerReply>>
  /\ UNCHANGED <<pipeVars, retryVars, routeVars, scoreVars, fetchVars, liqVars>>
  /\ UNCHANGED <<newsCall, lazy, pool>>

\* calculateTrend(klines) returns.
TrendReturns ==
  /\ Len(trendCall.trends) < MaxCalls
  /\ trendCall' = [trendCall EXCEPT !.trends = Append(@, calculateTrend(trendCall.klines))]
  /\ TrendUnchanged

NextTrend == TrendReturns

SpecTrend == InitTrend /\ [][NextTrend]_vars

(***************************************************************************)
(* initializeOpenAI and the two module variables OpenAI and openai.  The   *)
(* callers are the pipelines' calls of analyzeNewsSentiment and            *)
(* analyzeSignalWithAI; a call runs to `await import('openai')` when the   *)
(* class is not loaded yet, and the rest runs when the import settles.     *)
(* The import resolves in a deployment that has the package and rejects in *)
(* one that has not.  An instance is known by the number of its            *)
(* construction; got lists what each call of a caller returned.            *)
(***************************************************************************)
MaxCallers == 3
Callers == 1..MaxCallers

\* A variant that constructs a client whether or not there is one.
EnsureClientAlways(l) ==
  [l EXCEPT !.openai = Some(l.constructed + 1), !.constructed = @ + 1]

\* if (!openai) { openai = new OpenAI({ apiKey }) }
EnsureClient(l) ==
  IF l.openai = Nil
  THEN [l EXCEPT !.openai = Some(l.constructed + 1), !.constructed = @ + 1]
  ELSE l

\* return value appended to what caller p got
Returns(l, p, value) ==
  [l EXCEPT !.pc[p] = "idle", !.got[p] = Append(@, value)]

InitLazy ==
  /\ apiKey = FALSE
  /\ phase = "idle"
  /\ IdlePipelines
  /\ signals = << >>
  /\ scoreIn = Nil
  /\ scoreOut = Nil
  /\ fetchIn = Nil
  /\ fetchOut = Nil
  /\ liq = LiqIdle
  /\ newsCall = Nil /\ trendCall = Nil /\ pool = Nil
  /\ lazy \in [apiKey : BOOLEAN, available : BOOLEAN, OpenAI : {FALSE},
               openai : {Nil}, constructed : {0},
               pc : {[p \in Callers |-> "idle"]},
               got : {[p \in Callers |-> << >>]}]

LazyUnchanged ==
  /\ UNCHANGED <<apiKey, race, result, aiCalls, providerReply>>
  /\ UNCHANGED <<pipeVars, retryVars, routeVars, scoreVars, fetchVars, liqVars>>
  /\ UNCHANGED <<newsCall, trendCall, pool>>

\* initializeOpenAI() is called: up to the return or to the await.
CallInitialize(p) ==
  /\ lazy.pc[p] = "idle"
  /\ Len(lazy.got[p]) < MaxCalls
  /\ lazy' = IF ~lazy.apiKey THEN Returns(lazy, p, Nil)
             ELSE IF ~lazy.OpenAI THEN [lazy EXCEPT !.pc[p] = "importing"]
             ELSE LET l == EnsureClient(lazy) IN Returns(l, p, l.openai)
  /\ LazyUnchanged

\* await import('openai') settles: the class is stored and the client
\* ensured, or the catch block returns null.
ImportSettles(p) ==
  /\ lazy.pc[p] = "importing"
  /\ lazy' = IF lazy.available
             THEN LET l == EnsureClient([lazy EXCEPT !.OpenAI = TRUE])
                  IN  Returns(l, p, l.openai)
             ELSE Returns(lazy, p, Nil)
  /\ LazyUnchanged

NextLazy ==
  \/ \E p \in Callers : CallInitialize(p)
  \/ \E p \in Callers : ImportSettles(p)

SpecLazy == InitLazy /\ [][NextLazy]_vars

(***************************************************************************)
(* Properties.                                                             *)
(***************************************************************************)
\* What the scorer returned in the full computation of coin c, and in its
\* reduced retry.
Scored(c) ==
  generateSignal(binanceData[c][1], coinglassData[c][1], newsSentiment[c][1])

RetryScored(c) ==
  generateSignal(rBinanceData[c][1], rCoinglassData[c][1], "NEUTRAL")

\* C1: once all batches have settled, the collected list holds exactly one
\* Signal for every requested symbol, none missing and none twice, and the
\* Signal of a symbol whose full computation lost the race against the timer
\* is the Signal of the reduced retry.
C1_OneSignalPerSymbol ==
  phase = "responded" =>
    /\ Len(signals) = Len(coins)
    /\ \A c \in Coins :
         /\ Cardinality({i \in DOMAIN signals : signals[i].coin = c}) = 1
         /\ race[c] = "timeout" =>
              \E i \in DOMAIN signals : signals[i] = RetryScored(c)

C1_Witness ==
  /\ phase = "responded"
  /\ race["BTCUSDT"] = "data"
  /\ race["DOGEUSDT"] = "timeout"
  /\ Len(signals) = 2

\* C2: every run eventually returns with a Signal for every symbol, also
\* when a provider call of a full computation never settles.
C2_RunReturns ==
  <>(phase = "responded" /\ \A c \in Coins : result[c] # Nil)

C2_Witness ==
  /\ phase = "responded"
  /\ race["BTCUSDT"] = "timeout"
  /\ pc["BTCUSDT"] = "validate"
  /\ result["BTCUSDT"] # Nil

\* C3: a returned Signal carries an analysis only if its full computation
\* finished before the timer fired; when the timer fired first the returned
\* Signal is the reduced retry's, without analysis; and once a pipeline has
\* returned its Signal, no later step (the completion of the abandoned
\* computation included) changes it, nor the collected list or the response.
C3_Returned ==
  \A c \in Coins :
    result[c] # Nil =>
      /\ result[c][1].aiAnalysis # Nil => race[c] = "data"
      /\ race[c] = "timeout" =>
           /\ result[c][1] = RetryScored(c)
           /\ result[c][1].aiAnalysis = Nil

C3_Stable ==
  /\ \A c \in Coins : result[c] # Nil => result'[c] = result[c]
  /\ phase = "responded" => signals' = signals /\ response' = response

\* C3: a returned Signal has an analysis only when the full computation won
\* the race, and nothing changes a returned Signal afterwards.
C3_AnalysisOnlyWithinBudget == [](C3_Returned) /\ [][C3_Stable]_vars

C3_Witness ==
  /\ phase = "responded"
  /\ race["BTCUSDT"] = "timeout"
  /\ pc["BTCUSDT"] = "done"
  /\ signal["BTCUSDT"][1].aiAnalysis # Nil
  /\ signal["BTCUSDT"][1] # result["BTCUSDT"][1]

(***************************************************************************)
(* Properties of the scorer.                                               *)
(***************************************************************************)
\* Every analysis the validator can hand to the orchestrator for a signal.
AnalysesFor(sig) ==
  {analyzeSignalWithAI(sig, NewsOf(sig.coin), client, reply) :
     client \in BOOLEAN, reply \in ProviderReplies}

ScoredIn == scoreOut[1].signal
InBull == bullishCount(scoreIn[1].binanceData, scoreIn[1].coinglassData)
InBear == bearishCount(scoreIn[1].binanceData, scoreIn[1].coinglassData)

WellFormed(sig) ==
  /\ sig.confidence \in 0..100
  /\ sig.signal \in SignalCategory

C4_Ranges ==
  /\ WellFormed(ScoredIn)
  /\ \A a \in AnalysesFor(ScoredIn) : WellFormed(ApplyValidation(ScoredIn, a))

\* C4 as stated: confidence is an integer in 0..100 and the category is one
\* of the values of a nine-value enumeration, for every Signal the scorer
\* produces and for every Signal after the orchestrator's cap.
C4_NineValueEnumeration ==
  scoreOut # Nil => C4_Ranges /\ Cardinality(SignalCategory) = 9

\* C4 (amended): confidence is an integer in 0..100 and the category is one
\* of the values of the seven-value enumeration SignalOutput["signal"], for
\* every Signal the scorer produces and for every Signal after the cap.
C4_SevenValueEnumeration ==
  scoreOut # Nil => C4_Ranges /\ Cardinality(SignalCategory) = 7

C4_Witness ==
  /\ scoreOut # Nil
  /\ ScoredIn.confidence = 100
  /\ InBull = 8

\* The rule table of the claim, first match wins.
RuleTable(bull, bear) ==
  CASE bull >= 5 -> <<RevLong, Min(95, 60 + 5 * bull)>>
    [] bull \in 3..4 -> <<LongGoing, Min(85, 50 + 7 * bull)>>
    [] bull < 3 /\ bear >= 5 -> <<RevShort, Min(95, 60 + 5 * bear)>>
    [] bull < 3 /\ bear \in 3..4 -> <<ShortGoing, Min(85, 50 + 7 * bear)>>
    [] bull = 2 /\ bear < 3 -> <<ShortRisky, 40>>
    [] bull < 2 /\ bear = 2 -> <<LongRisky, 40>>
    [] OTHER -> <<NoSignal, 0>>

\* C5: with NEUTRAL sentiment the scorer's category and confidence are those
\* of the first matching rule of the table; bullCount = 3 with bearCount = 5
\* gives LONG GOING, and bullCount = 6 gives REVERSAL STARTED LONG with 90.
C5_RuleOrder ==
  (scoreOut # Nil /\ scoreOut[1].newsSentiment = "NEUTRAL") =>
    /\ <<ScoredIn.signal, ScoredIn.confidence>> = RuleTable(InBull, InBear)
    /\ (InBull = 3 /\ InBear = 5) => ScoredIn.signal = LongGoing
    /\ InBull = 6 => ScoredIn.signal = RevLong /\ ScoredIn.confidence = 90

C5_Witness ==
  /\ scoreOut # Nil
  /\ scoreOut[1].newsSentiment = "NEUTRAL"
  /\ InBull = 3
  /\ InBear = 5
  /\ ScoredIn.signal = LongGoing
  /\ ScoredIn.confidence = 71

LongCategories == {RevLong, LongGoing, LongRisky}
ShortCategories == {RevShort, ShortGoing, ShortRisky}

\* The adjustment of the claim for a sentiment and a category.
Adjustment(sentiment, category) ==
  IF \/ sentiment = "BULLISH" /\ category \in LongCategories
     \/ sentiment = "BEARISH" /\ category \in ShortCategories
  THEN 10
  ELSE IF \/ sentiment = "BULLISH" /\ category \in ShortCategories
          \/ sentiment = "BEARISH" /\ category \in LongCategories
       THEN -10
       ELSE 0

\* C6: the confidence is the rule's confidence plus 10 when the sentiment
\* agrees with the category's direction, minus 10 when it opposes it, plus 0
\* otherwise, clamped to 0..100; the category does not depend on the
\* sentiment, and no category is both a LONG and a SHORT one.
C6_SentimentAdjustment ==
  scoreOut # Nil =>
    LET rule == Classify(InBull, InBear)
        delta == Adjustment(scoreOut[1].newsSentiment, ScoredIn.signal)
    IN  /\ ScoredIn.signal = rule.signal
        /\ ScoredIn.confidence = Max(0, Min(100, rule.confidence + delta))
        /\ ~(Includes(ScoredIn.signal, "LONG") /\ Includes(ScoredIn.signal, "SHORT"))
        /\ Includes(ScoredIn.signal, "LONG") <=> ScoredIn.signal \in LongCategories
        /\ Includes(ScoredIn.signal, "SHORT") <=> ScoredIn.signal \in ShortCategories

C6_Witness ==
  /\ scoreOut # Nil
  /\ scoreOut[1].newsSentiment = "BULLISH"
  /\ ScoredIn.signal = ShortRisky
  /\ ScoredIn.confidence = 30

\* The facts of the true entries of a criterion vector, taken in the order
\* given by the index list.
RECURSIVE FactsOf(_, _, _)
FactsOf(flags, texts, order) ==
  IF order = << >> THEN << >>
  ELSE (IF flags[Head(order)] THEN <<texts[Head(order)]>> ELSE << >>)
       \o FactsOf(flags, texts, Tail(order))

BullFacts ==
  <<"5min uptrend active", "15min uptrend active", "Bollinger upper band breakout",
    "EMA bullish crossover", "Negative funding rate (shorts paying)", "",
    "Short liquidation spike detected", "">>

BearFacts ==
  <<"5min downtrend active", "15min downtrend active", "Bollinger lower band breakout",
    "EMA bearish crossover", "Positive funding rate (longs paying)", "",
    "Long liquidation spike detected", "">>

\* C7 as stated: one fact for each true entry of the two 8-entry criterion
\* vectors, so the summary is as long as bullCount + bearCount.
C7_FactPerCriterion ==
  scoreOut # Nil => Len(ScoredIn.trendSummary) = InBull + InBear

\* C7 (amended): the summary holds one fact for each true entry among six of
\* the eight criteria, bullish facts first, each group in the order 5m trend,
\* 15m trend, breakout, crossover, liquidation spike, funding rate; the
\* long/short-ratio and liquidation-ratio criteria add no fact, so the
\* summary is at most bullCount + bearCount long.
C7_SixFactsPerSide ==
  scoreOut # Nil =>
    LET bull == bullishSignals(scoreIn[1].binanceData, scoreIn[1].coinglassData)
        bear == bearishSignals(scoreIn[1].binanceData, scoreIn[1].coinglassData)
        order == <<1, 2, 3, 4, 7, 5>>
    IN  /\ ScoredIn.trendSummary =
             FactsOf(bull, BullFacts, order) \o FactsOf(bear, BearFacts, order)
        /\ Len(ScoredIn.trendSummary) =
             InBull + InBear - CountTrue(<<bull[6], bull[8], bear[6], bear[8]>>)

C7_Witness ==
  /\ scoreOut # Nil
  /\ InBull = 8
  /\ Len(ScoredIn.trendSummary) = 6
  /\ ScoredIn.trendSummary[5] = "Short liquidation spike detected"

(***************************************************************************)
(* Properties of the validation step.                                      *)
(***************************************************************************)
\* The provider did not deliver a usable analysis: the call failed, the
\* answer was empty or not JSON, or the JSON lacks a member the code reads.
ValidationFailed(reply) ==
  \/ reply.kind # "json"
  \/ ~reply.hasNewsAnalysis
  \/ reply.signalValidation = Nil

\* The validator's catch block ran.
FellBack(reply) == reply.kind # "json" \/ ~reply.hasNewsAnalysis

\* Coin c's pipeline returned the Signal of its full computation.
ReturnedFull(c) == result[c] # Nil /\ race[c] = "data"

C9_Gate ==
  \A c \in Coins :
    /\ aiCalls[c] \in 0..1
    /\ pc[c] = "validate" => aiCalls[c] = 1
    /\ aiCalls[c] = 1 =>
         /\ newsSentiment[c] # Nil
         /\ Scored(c).confidence >= 60 \/ c \in MajorCoins
    /\ (result[c] # Nil /\ result[c][1].aiAnalysis # Nil) =>
         /\ race[c] = "data"
         /\ aiCalls[c] = 1
         /\ Scored(c).confidence >= 60 \/ c \in MajorCoins

C9_CallSite ==
  \A c \in Coins :
    aiCalls'[c] # aiCalls[c] =>
      /\ pc[c] = "sentiment"
      /\ newsSentiment[c] = Nil /\ newsSentiment'[c] # Nil
      /\ rpc'[c] = rpc[c]

\* C9: the validator runs only right after scoring, only behind the gate
\* (confidence >= 60 or major symbol), and never on the reduced retry.
C9_ValidatorGate == [](C9_Gate) /\ [][C9_CallSite]_vars

C9_Witness ==
  /\ result["DOGEUSDT"] # Nil
  /\ result["DOGEUSDT"][1].aiAnalysis # Nil
  /\ result["BTCUSDT"] # Nil
  /\ result["BTCUSDT"][1].aiAnalysis # Nil
  /\ Scored("BTCUSDT").confidence < 60
  /\ rpc["DOGEUSDT"] = "idle"

\* The confidence the scorer gave to the Signal coin c's pipeline returned.
ReturnedScored(c) == IF race[c] = "data" THEN Scored(c) ELSE RetryScored(c)

\* C10: a returned Signal whose analysis has the validity flag false has
\* confidence min(scored, 60); no returned Signal has more than the scored
\* confidence; a returned Signal whose analysis is valid, or that has no
\* analysis, has exactly the scored confidence.
C10_Cap ==
  \A c \in Coins :
    result[c] # Nil =>
      LET r == result[c][1]
          scored == ReturnedScored(c).confidence
          flagged == r.aiAnalysis # Nil /\ r.aiAnalysis[1].signalValidation # Nil
      IN  /\ (flagged /\ ~r.aiAnalysis[1].signalValidation[1].isValid) =>
               r.confidence = Min(scored, 60) /\ r.confidence <= 60
          /\ r.confidence <= scored
          /\ (flagged /\ r.aiAnalysis[1].signalValidation[1].isValid) =>
               r.confidence = scored
          /\ r.aiAnalysis = Nil => r.confidence = scored

C10_Witness ==
  /\ result["BTCUSDT"] # Nil
  /\ result["BTCUSDT"][1].aiAnalysis # Nil
  /\ result["BTCUSDT"][1].aiAnalysis[1].signalValidation # Nil
  /\ ~result["BTCUSDT"][1].aiAnalysis[1].signalValidation[1].isValid
  /\ ~result["BTCUSDT"][1].aiAnalysis[1].fallback
  /\ Scored("BTCUSDT").confidence = 88
  /\ result["BTCUSDT"][1].confidence = 60

(***************************************************************************)
(* Frame of the validation step.                                           *)
(***************************************************************************)
\* The members of a Signal the validation step has no business with.
ScorerFields(sig) ==
  <<sig.coin, sig.currentPrice, sig.signal, sig.trendSummary, sig.suggestedAction>>

C11_Returned ==
  \A c \in Coins :
    /\ result[c] # Nil => ScorerFields(result[c][1]) = ScorerFields(ReturnedScored(c))
    /\ (signal[c] # Nil /\ signal[c][1].aiAnalysis # Nil) =>
         signal[c][1].aiAnalysis[1].keyNews = news[c][1]

C11_Frame ==
  \A c \in Coins :
    /\ binanceData[c] # Nil => binanceData'[c] = binanceData[c]
    /\ coinglassData[c] # Nil => coinglassData'[c] = coinglassData[c]
    /\ news[c] # Nil => news'[c] = news[c]
    /\ signal[c] # Nil => ScorerFields(signal'[c][1]) = ScorerFields(signal[c][1])

\* C11: the validation step changes only the confidence of the scored Signal
\* and attaches the analysis: symbol, price, category, trend summary and
\* suggested action of every returned Signal are the scorer's, and the
\* market snapshot, liquidation snapshot and news items handed to the
\* validator stay as they were fetched.
C11_ValidationFrame == [](C11_Returned) /\ [][C11_Frame]_vars

C11_Witness ==
  /\ ReturnedFull("BTCUSDT")
  /\ providerReply["BTCUSDT"] # Nil
  /\ result["BTCUSDT"][1].aiAnalysis # Nil
  /\ Scored("BTCUSDT").confidence = 88
  /\ result["BTCUSDT"][1].confidence = 60
  /\ result["BTCUSDT"][1].suggestedAction = Scored("BTCUSDT").suggestedAction

(***************************************************************************)
(* Properties of the ranking and the selection.                            *)
(***************************************************************************)
\* Advisory-validated and valid; a Signal without analysis counts as not.
Validated(s) ==
  /\ s.aiAnalysis # Nil
  /\ s.aiAnalysis[1].signalValidation # Nil
  /\ s.aiAnalysis[1].signalValidation[1].isValid

\* The three conditions of the claim for a placed before b.
MayPrecede(a, b) ==
  /\ Validated(a) \/ ~Validated(b)
  /\ (Validated(a) <=> Validated(b)) => (a.signal # NoSignal \/ b.signal = NoSignal)
  /\ ((Validated(a) <=> Validated(b)) /\ (a.signal = NoSignal <=> b.signal = NoSignal))
       => a.confidence >= b.confidence

Ordered(list) ==
  \A i, j \in DOMAIN list : i < j => MayPrecede(list[i], list[j])

\* list holds the elements of all, each once.
SameElements(list, all) ==
  /\ Len(list) = Len(all)
  /\ \A i \in DOMAIN all : \E j \in DOMAIN list : list[j] = all[i]

Ranked == SortSignals(signals)

Returned == response[1].signals

HighCount ==
  Cardinality({i \in DOMAIN signals : signals[i].confidence >= 70})

\* C12: the sorted list is a rearrangement of the collected signals in which
\* every signal placed before another is validated-and-valid or the other is
\* not; on a tie is not NO SIGNAL or the other is; on a second tie has at
\* least the other's confidence.  The returned list keeps that order.
C12_LexicographicOrder ==
  phase = "ranked" =>
    /\ SameElements(Ranked, signals)
    /\ Ordered(Ranked)
    /\ Ordered(Returned)
    /\ response[1].totalProcessed = Len(signals)

C12_Witness ==
  /\ phase = "ranked"
  /\ Len(Returned) >= 12
  /\ \E i \in DOMAIN Returned :
       /\ i + 2 \in DOMAIN Returned
       /\ Validated(Returned[i]) /\ Returned[i].signal = NoSignal
       /\ ~Validated(Returned[i + 1]) /\ Returned[i + 1].confidence = 78
       /\ Returned[i + 2].confidence = 60
  /\ Ranked # signals

\* C13: with at least 10 collected signals of confidence >= 70 the response
\* holds exactly those, in the sort order; otherwise it holds the first
\* min(25, n) signals of the sorted list.
C13_FinalSelection ==
  phase = "ranked" =>
    IF HighCount >= 10
    THEN /\ Len(Returned) = HighCount
         /\ \A i \in DOMAIN Returned : Returned[i].confidence >= 70
         /\ \A i \in DOMAIN signals :
              signals[i].confidence >= 70 =>
                \E j \in DOMAIN Returned : Returned[j] = signals[i]
         /\ Ordered(Returned)
    ELSE /\ Len(Returned) = Min(25, Len(signals))
         /\ Returned = SubSeq(Ranked, 1, Len(Returned))

C13_Witness ==
  /\ phase = "ranked"
  /\ HighCount = 10
  /\ Len(signals) = MaxRank
  /\ Len(Returned) = 10

C15_NoProcessingError ==
  phase = "responded" =>
    /\ response[1].status = 200
    /\ response[1].error # "Processing error"

\* The provider's answer is not a usable analysis: the call failed, there is
\* no content, the content is not JSON, or the JSON lacks a member of the
\* expected shape.
Unusable(reply) ==
  \/ reply.kind \in {"error", "empty", "text"}
  \/ reply.kind = "json" /\ (~reply.hasNewsAnalysis \/ reply.signalValidation = Nil)

\* The validator of coin c's full computation has returned.
ValidatorReturned(c) == aiCalls[c] = 1 /\ pc[c] = "done"

\* C16: the validator returns null exactly when there is no client (or the
\* analysis is disabled); with a client, whenever the provider call fails,
\* has no content, is not JSON or is JSON of another shape, it returns the
\* local fallback analysis: validity = (confidence >= 70), the signal's
\* confidence, risk HIGH below 50, MEDIUM below 70, else LOW, and the input
\* news items.
C16_NullOrFallback ==
  \A c \in Coins :
    ValidatorReturned(c) =>
      LET returned == signal[c][1].aiAnalysis
          s == Scored(c)
      IN  /\ returned = Nil <=> (~apiKey \/ ~aiAnalysisEnabled)
          /\ (apiKey /\ aiAnalysisEnabled /\ Unusable(providerReply[c][1])) =>
               /\ returned # Nil
               /\ returned[1].signalValidation =
                    Some([isValid |-> s.confidence >= 70, confidence |-> s.confidence])
               /\ returned[1].riskLevel =
                    (IF s.confidence < 50 THEN "HIGH"
                     ELSE IF s.confidence < 70 THEN "MEDIUM" ELSE "LOW")
               /\ returned[1].keyNews = news[c][1]

(***************************************************************************)
(* Properties of the market fetcher.                                       *)
(***************************************************************************)
FetchCalls == fetchIn[1].calls
FetchDraws == fetchIn[1].rnd
Snapshot == fetchOut[1].data

\* C17: the fetch returns a snapshot for every combination of settled calls,
\* and each field holds the value of its own call when that call succeeded
\* and the fallback draw when it failed, whatever the other calls did.
C17_DegradePerField ==
  fetchOut # Nil =>
    /\ Snapshot.currentPrice =
         (IF FetchCalls.price # Nil THEN FetchCalls.price[1] ELSE FetchDraws.price)
    /\ Snapshot.volume =
         (IF FetchCalls.ticker24h # Nil THEN FetchCalls.ticker24h[1].volume
          ELSE FetchDraws.volume)
    /\ Snapshot.deltaVolume =
         (IF FetchCalls.ticker24h # Nil THEN FetchCalls.ticker24h[1].priceChangePercent
          ELSE FetchDraws.deltaVolume)
    /\ Snapshot.openInterest =
         (IF FetchCalls.openInterest # Nil THEN FetchCalls.openInterest[1]
          ELSE FetchDraws.openInterest)
    /\ FetchCalls.funding = Nil => Snapshot.fundingRate = FetchDraws.fundingRate
    /\ (FetchCalls.funding # Nil /\ FetchCalls.funding[1] # << >>) =>
         Snapshot.fundingRate = FetchCalls.funding[1][1]
    /\ Snapshot.longShortRatio =
         (IF FetchCalls.longShort # Nil THEN FetchCalls.longShort[1][1]
          ELSE FetchDraws.longShortRatio)
    /\ (FetchCalls.klines5m # Nil /\ FetchCalls.klines5m[1].isArray) =>
         /\ Snapshot.trend5min = TrendLabel(FetchCalls.klines5m[1])
         /\ Snapshot.bollingerBandBreakout =
              calculateBollingerBreakout(FetchCalls.klines5m[1])
         /\ Snapshot.emaCrossover = calculateEMACrossover(FetchCalls.klines5m[1])
    /\ (FetchCalls.klines15m # Nil /\ FetchCalls.klines15m[1].isArray) =>
         Snapshot.trend15min = TrendLabel(FetchCalls.klines15m[1])

\* The coarse labels of the 24h percent change.
CoarseLabels(deltaVolume) ==
  IF deltaVolume > 2
  THEN [trend5min |-> "LONG", trend15min |-> "LONG",
        bollingerBandBreakout |-> "UP", emaCrossover |-> "BULLISH"]
  ELSE IF deltaVolume < -2
       THEN [trend5min |-> "SHORT", trend15min |-> "SHORT",
             bollingerBandBreakout |-> "DOWN", emaCrossover |-> "BEARISH"]
       ELSE [trend5min |-> "NEUTRAL", trend15min |-> "NEUTRAL",
             bollingerBandBreakout |-> "NONE", emaCrossover |-> "NONE"]

SnapshotLabels ==
  [trend5min |-> Snapshot.trend5min, trend15min |-> Snapshot.trend15min,
   bollingerBandBreakout |-> Snapshot.bollingerBandBreakout,
   emaCrossover |-> Snapshot.emaCrossover]

\* C18: when a price-history call succeeded the labels are the ones computed
\* from the price history; the coarse labels of the percent change are used
\* only when both price-history calls failed.
C18_HeuristicOnlyWithoutKlines ==
  (fetchOut # Nil /\ ~TryThrows(FetchCalls)) =>
    IF FetchCalls.klines5m = Nil /\ FetchCalls.klines15m = Nil
    THEN SnapshotLabels = CoarseLabels(Snapshot.deltaVolume)
    ELSE SnapshotLabels = KlineLabels(FetchCalls)

TotalFailure ==
  /\ FetchCalls.price = Nil
  /\ FetchCalls.ticker24h = Nil
  /\ FetchCalls.funding = Nil
  /\ FetchCalls.longShort = Nil
  /\ FetchCalls.openInterest = Nil
  /\ FetchCalls.klines5m = Nil
  /\ FetchCalls.klines15m = Nil

\* C19: when all seven calls fail (and also when the catch block builds the
\* snapshot) the price is the oracle's estimate, the two trend labels are
\* equal, a change above +2 gives LONG and below -2 gives SHORT, LONG labels
\* come with a positive and SHORT labels with a negative change only, and
\* the labels are NEUTRAL only for a change within 2 of zero.
C19_TotalFailureLabels ==
  (fetchOut # Nil /\ (TotalFailure \/ TryThrows(FetchCalls))) =>
    LET delta == Snapshot.deltaVolume
        oracle == IF TryThrows(FetchCalls) THEN fetchOut[1].again.price
                  ELSE FetchDraws.price
    IN  /\ Snapshot.currentPrice = oracle
        /\ Snapshot.trend5min = Snapshot.trend15min
        /\ delta > 2 => Snapshot.trend5min = "LONG"
        /\ delta < -2 => Snapshot.trend5min = "SHORT"
        /\ Snapshot.trend5min = "LONG" =>
             /\ delta > 0
             /\ Snapshot.bollingerBandBreakout # "DOWN"
             /\ Snapshot.emaCrossover # "BEARISH"
        /\ Snapshot.trend5min = "SHORT" =>
             /\ delta < 0
             /\ Snapshot.bollingerBandBreakout # "UP"
             /\ Snapshot.emaCrossover # "BULLISH"
        /\ Snapshot.trend5min = "NEUTRAL" => (delta >= -2 /\ delta <= 2)

C19_Witness ==
  /\ fetchOut # Nil
  /\ TotalFailure
  /\ Snapshot.deltaVolume = -3
  /\ Snapshot.trend5min = "SHORT"
  /\ Snapshot.trend15min = "SHORT"
  /\ Snapshot.emaCrossover = "BEARISH"
  /\ Snapshot.currentPrice = 100

(***************************************************************************)
(* Properties of the liquidation fetcher.                                  *)
(***************************************************************************)
\* The three liquidation endpoints have settled without a non-zero figure.
PrimaryEmpty ==
  /\ liq.apiCalls # << >>
  /\ ~ProcessingThrows(liq.apiCalls)
  /\ PrimaryFigures(liq.apiCalls).longLiq1h = 0
  /\ PrimaryFigures(liq.apiCalls).shortLiq1h = 0

\* C20: the secondary estimate is started only after the liquidation
\* endpoints produced no non-zero figure, and the synthetic generator runs
\* only after the secondary estimate has delivered and produced none.
C20_TiersInOrder ==
  /\ liq.alternative.status # "idle" => PrimaryEmpty
  /\ liq.synthetic.status # "idle" =>
       /\ liq.alternative.status = "settled"
       /\ ~Usable(liq.alternative.value)

(***************************************************************************)
(* C21, C22: the snapshot getRealCoinglassData returns.                    *)
(***************************************************************************)
LiqOut == liq.out[1]

\* The stated rule, on whole dollars: ratio > 2.5 is 2 * long > 5 * short.
StatedSpike(long, short) ==
  CASE long + short > 500000 /\ long > 1000000 /\ 2 * long > 5 * short -> "LONG"
    [] long + short > 500000 /\ short > 1000000 /\ 5 * long < 2 * short -> "SHORT"
    [] OTHER -> "NONE"

FollowsStatedRule ==
  LiqOut.liquidationSpike =
    StatedSpike(LiqOut.longLiquidations1h, LiqOut.shortLiquidations1h)

\* C21: on every return path, the exception fallback included, the
\* spike label is LONG exactly when total 1h > 500,000, long 1h > 1,000,000
\* and long/short > 2.5, SHORT exactly when total 1h > 500,000, short 1h >
\* 1,000,000 and long/short < 0.4, and NONE otherwise.
C21_StatedRuleOnEveryPath == liq.out # Nil => FollowsStatedRule

\* C22: in every snapshot returned, on every path, the total equals long
\* plus short at 1h, at 4h and at 24h.
C22_TotalIsLongPlusShort ==
  liq.out # Nil =>
    /\ LiqOut.totalLiquidations1h =
         LiqOut.longLiquidations1h + LiqOut.shortLiquidations1h
    /\ LiqOut.totalLiquidations4h =
         LiqOut.longLiquidations4h + LiqOut.shortLiquidations4h
    /\ LiqOut.totalLiquidations24h =
         LiqOut.longLiquidations24h + LiqOut.shortLiquidations24h

\* A snapshot with both legs positive whose 24h legs were scaled by
\* different draws.
C22_Witness ==
  /\ liq.out # Nil
  /\ LiqOut.longLiquidations1h > 0
  /\ LiqOut.shortLiquidations1h > 0
  /\ LiqOut.longLiquidations24h \div LiqOut.longLiquidations1h
       # LiqOut.shortLiquidations24h \div LiqOut.shortLiquidations1h

(***************************************************************************)
(* C23: the estimate from open interest and funding rate.                  *)
(***************************************************************************)
EstimateIn == liq.estimateIn[1]

Legs(total, long, short) ==
  Some([longLiq1h |-> (total * long) \div 10, shortLiq1h |-> (total * short) \div 10])

\* C23: an estimated total is split 70/30 between long and short when the
\* funding rate is positive, 30/70 when it is negative and 50/50 whenever
\* funding data is unavailable (the call failed or returned no entry), and
\* the two legs sum to the estimated total.
C23_SplitByFunding ==
  (liq.estimateIn # Nil /\ EstimateIn.total # Nil /\ EstimateIn.total[1] > 0) =>
    LET total == EstimateIn.total[1]
        funding == EstimateIn.funding
        estimate == liq.alternative.value
    IN  /\ (funding = Nil \/ funding[1] = << >>) => estimate = Legs(total, 5, 5)
        /\ (funding # Nil /\ funding[1] # << >> /\ funding[1][1] > 0) =>
             estimate = Legs(total, 7, 3)
        /\ (funding # Nil /\ funding[1] # << >> /\ funding[1][1] < 0) =>
             estimate = Legs(total, 3, 7)
        /\ estimate # Nil /\ estimate[1].longLiq1h + estimate[1].shortLiq1h = total

(***************************************************************************)
(* C24, C25: the news provider.                                            *)
(***************************************************************************)
\* C24: the sentiment analysis returns one of BULLISH, BEARISH and NEUTRAL
\* whatever text the provider answers, and NEUTRAL without a client, for an
\* empty list and when the provider call fails.
C24_SentimentInEnumeration ==
  \A k \in DOMAIN newsCall.calls :
    LET call == newsCall.calls[k]
    IN  call.newsSentiment # Nil =>
          /\ call.newsSentiment[1] \in NewsSentiment
          /\ (~newsCall.aiClient \/ Len(call.news) = 0 \/ call.reply = Nil) =>
               call.newsSentiment[1] = "NEUTRAL"

\* The request got no article from the provider.
NoArticles(call) ==
  ~newsCall.newsApiKey \/ call.response = Nil \/ call.response[1] = << >>

\* C25: without a configured provider, after a failed request and for an
\* answer without articles the news list is the three template articles for
\* the symbol, the same in every field for any two requests for that symbol,
\* and no list returned is empty or longer than five.
C25_FallbackReproducible ==
  /\ \A k \in DOMAIN newsCall.calls :
       /\ Len(newsCall.calls[k].news) \in 1..5
       /\ NoArticles(newsCall.calls[k]) =>
            /\ Len(newsCall.calls[k].news) = 3
            /\ [i \in 1..3 |-> newsCall.calls[k].news[i].sentiment]
                 = <<"BULLISH", "NEUTRAL", "BULLISH">>
  /\ \A j, k \in DOMAIN newsCall.calls :
       (NoArticles(newsCall.calls[j]) /\ NoArticles(newsCall.calls[k])) =>
         newsCall.calls[j].news = newsCall.calls[k].news

(***************************************************************************)
(* C26: pipelines in flight.                                               *)
(***************************************************************************)
InFlight == {c \in PoolCoins : pool.status[c] = "running"}

InFlightOf(b) == {c \in InFlight : \E i \in DOMAIN pool.batches[b] : pool.batches[b][i] = c}

\* C26 as stated: at every moment at most 12 symbol pipelines are started
\* and unfinished.
C26_AtMostTwelveInFlight == Cardinality(InFlight) <= 12

\* C26: at every moment at most 12 pipelines of one batch are started and
\* unfinished; the batches are all started together, so over the request the
\* number is bounded by the number of symbols only.
C26_TwelvePerBatch ==
  /\ \A b \in DOMAIN pool.batches : Cardinality(InFlightOf(b)) <= 12
  /\ Cardinality(InFlight) <= Len(poolCoins)
  /\ \A c \in InFlight : \E b \in DOMAIN pool.batches : c \in InFlightOf(b)

\* More than 12 pipelines run while the first batch has not settled.
C26_Witness ==
  /\ Cardinality(InFlight) > 12
  /\ 1 \notin pool.settled
  /\ Cardinality(InFlightOf(1)) = 12

\* The sum of the closes of a list, in tenths.
RECURSIVE TenthsSum(_)
TenthsSum(list) ==
  IF Len(list) = 0 THEN 0 ELSE list[1].digits + TenthsSum(Tail(list))

\* The stated rule on the exact closes: LONG when the mean of the last five
\* closes exceeds the mean of the five before by more than 0.2% of that mean.
StatedTrend(klines) ==
  IF Len(klines) < MinTrendKlines THEN "NEUTRAL"
  ELSE LET n == Len(klines)
           recent == TenthsSum(SubSeq(klines, n - TrendWindow + 1, n))
           previous == TenthsSum(SubSeq(klines, n - 2 * TrendWindow + 1, n - TrendWindow))
       IN  IF (recent - previous) * 500 > previous THEN "LONG"
           ELSE IF (previous - recent) * 500 > previous THEN "SHORT"
           ELSE "NEUTRAL"

\* C27: calculateTrend returns LONG exactly when the mean of the last 5 closes
\* exceeds the mean of the preceding 5 by more than 0.2% of the preceding
\* mean, SHORT exactly when it is lower by more than 0.2%, NEUTRAL otherwise
\* (a change of exactly 0.2% included) and for fewer than 10 candles, and the
\* same array always gives the same label.
C27_TrendAsStated ==
  trendCall # Nil =>
    \A k \in DOMAIN trendCall.trends :
      trendCall.trends[k] = StatedTrend(trendCall.klines)


\* C28: in every returned Signal the suggested action agrees with the final
\* confidence: the "High confidence ... setup" wording appears only with a
\* REVERSAL category and confidence > 70, the "Trend continuation" wording
\* only with a GOING category and confidence > 60.
C28_ActionAgreesWithConfidence ==
  \A c \in Coins :
    result[c] # Nil =>
      LET r == result[c][1]
      IN  /\ r.suggestedAction[1] = "High confidence" =>
               Includes(r.signal, "REVERSAL") /\ r.confidence > 70
          /\ r.suggestedAction[1] = "Trend continuation" =>
               Includes(r.signal, "GOING") /\ r.confidence > 60

\* Confidence 0 goes with NO SIGNAL and with nothing else; the others have 30
\* or more.
ZeroIffNoSignal(sig) ==
  /\ sig.confidence = 0 <=> sig.signal = NoSignal
  /\ sig.signal # NoSignal => sig.confidence >= 30

\* What the validation step can make of a scored Signal: no analysis, or the
\* validator's result for any answer of the provider.
AfterValidation(sig) ==
  {ApplyValidation(sig, a) :
     a \in {Nil} \cup {analyzeSignalWithAI(sig, NewsOf(sig.coin), TRUE, reply) :
                         reply \in ProviderReplies}}

\* C29: every Signal of the scorer, and every Signal the route returns, has
\* confidence 0 exactly when its category is NO SIGNAL; every other category
\* has confidence of 30 or more for any sentiment; neither the sentiment
\* adjustment nor the cap gives NO SIGNAL another confidence.
C29_ZeroExactlyForNoSignal ==
  /\ scoreOut # Nil =>
       /\ ZeroIffNoSignal(ScoredIn)
       /\ \A sig \in AfterValidation(ScoredIn) : ZeroIffNoSignal(sig)
  /\ \A c \in Coins :
       /\ signal[c] # Nil => ZeroIffNoSignal(signal[c][1])
       /\ result[c] # Nil => ZeroIffNoSignal(result[c][1])

C29_Witness ==
  /\ scoreOut # Nil
  /\ scoreOut[1].newsSentiment = "BEARISH"
  /\ ScoredIn.signal = LongRisky
  /\ ScoredIn.confidence = 30
  /\ \E sig \in AfterValidation(ScoredIn) :
       /\ sig.aiAnalysis # Nil
       /\ sig.aiAnalysis[1].signalValidation # Nil
       /\ ~sig.aiAnalysis[1].signalValidation[1].isValid
       /\ sig.confidence = 30

C29_WitnessNoSignal ==
  /\ scoreOut # Nil
  /\ scoreOut[1].newsSentiment = "BULLISH"
  /\ ScoredIn.signal = NoSignal
  /\ \E sig \in AfterValidation(ScoredIn) :
       /\ sig.aiAnalysis # Nil
       /\ sig.aiAnalysis[1].signalValidation # Nil
       /\ ~sig.aiAnalysis[1].signalValidation[1].isValid
       /\ sig.confidence = 0

\* C30 as stated: under any interleaving of first-use calls at most one
\* client is constructed and every caller receives that instance; without an
\* API key no client is constructed and every call yields null.
C30_OneInstanceForEveryCaller ==
  lazy # Nil =>
    /\ lazy.constructed <= 1
    /\ lazy.apiKey =>
         \A p \in Callers : \A k \in DOMAIN lazy.got[p] : lazy.got[p][k] = Some(1)
    /\ ~lazy.apiKey =>
         /\ lazy.constructed = 0
         /\ \A p \in Callers : \A k \in DOMAIN lazy.got[p] : lazy.got[p][k] = Nil

\* C30, amended: at most one client is constructed; with an API key and a
\* loadable provider module every call returns that one instance; without
\* an API key, or when the module cannot be loaded, no client is constructed
\* and every call yields null.
C30_OneInstanceWhenLoadable ==
  lazy # Nil =>
    /\ lazy.constructed <= 1
    /\ (lazy.apiKey /\ lazy.available) =>
         \A p \in Callers : \A k \in DOMAIN lazy.got[p] : lazy.got[p][k] = Some(1)
    /\ (~lazy.apiKey \/ ~lazy.available) =>
         /\ lazy.constructed = 0
         /\ \A p \in Callers : \A k \in DOMAIN lazy.got[p] : lazy.got[p][k] = Nil

\* One caller's import has settled and it got the instance while another
\* caller, suspended at its own import since before the class was stored,
\* has not resumed; a third has returned the same instance.
C30_Witness ==
  /\ lazy # Nil
  /\ lazy.constructed = 1
  /\ \E p, q, r \in Callers :
       /\ p # q /\ q # r /\ p # r
       /\ lazy.got[p] = <<Some(1)>>
       /\ lazy.pc[q] = "importing" /\ lazy.got[q] = << >>
       /\ lazy.got[r] = <<Some(1), Some(1)>>

====
